---- MODULE Spec2Model ----
(***************************************************************************)
(* Session and broadcast orchestration of the SSE server (RegisterSSE,     *)
(* SseSession, SseServer).  One worker per streaming request, one shared   *)
(* registry, a fan-out producer with one consumer per session, and         *)
(* application threads that broadcast, send direct messages and close      *)
(* sessions.                                                               *)
(* The HTTP service underneath (Service: routes, request parameters,      *)
(* Close) and the example program's main are modelled in their own specs.  *)
(***************************************************************************)
EXTENDS Integers, Sequences, FiniteSets, TLC

\* ------------------------------------------------------------------ bounds
MaxConns == 2
MaxBroadcasts == 2
MaxDirect == 2
MaxCloseCalls == 2
MaxTicks == 1
MaxAdvance == 2
MaxCallbacks == 1
MaxAcceptLen == 3
MaxReads == 2
MaxRoutes == 3
\* Calls and events from outside the workers (Broadcast, DirectMessage, Close,
\* cancellation, ticks, passing time, callback requests, registry reads) in one
\* run; callback requests are explored in SpecCb, SpecRoute and SpecRe, registry
\* reads in SpecReg.
MaxEnv == 2

\* --------------------------------------------------------------- constants
\* make(chan SseMessage, 256)
DirectCap == 256
\* mpmc.NewProducer[SseMessage](mpmc.ProducerKind_All, 2048, 2048): the slots of
\* a consumer's buffer.
BroadcastCap == 2048
\* pingInterval := 60 * time.Second
PingInterval == 60

Conns == 1..MaxConns
\* One application thread that calls Close on sessions it holds.
Closer == MaxConns + 1
Threads == Conns \cup {Closer}

VARIABLES
    arrivals,   \* streaming requests that arrive in this run
    factory,    \* srv.factory: "nil" or "some"
    clients,    \* srv.clients: the registered client ids
    pc,         \* position of each connection worker in the route handler
    handler,    \* session.user_handler != nil
    closed,     \* session.closed
    released,   \* per session: how often each resource was released by Close
    cpos,       \* position of each thread inside SseSession.Close
    ctgt,       \* the session the application thread is closing
    cancelled,  \* rctx is done
    cons,       \* the broadcast consumer: "none", "attached", "released"
    bq,         \* broadcast_messages.Messages buffer
    dq,         \* direct_messages buffer
    pingReady,  \* a tick is waiting in pingTicker.C
    hand,       \* per worker: the message it received and is encoding and writing
    defers,     \* per worker: the deferred calls, the next one to run first
    log,        \* per connection: hook calls, writes and cancellation, in order
    attachedPub,\* per connection: ids published while its consumer was attached
    nPub,       \* Broadcast calls so far
    nDirect,    \* application DirectMessage calls so far
    nClose,     \* application Close calls so far
    nTick,      \* ticker firings so far
    nCancel,    \* request cancellations so far
    lastErr,    \* result of the latest application DirectMessage call
    now,        \* the time, in seconds since the server started
    nextTick,   \* per connection: when pingTicker delivers its next tick
    asyncTimerChan, \* the build keeps a tick sent before Reset in pingTicker.C
                \* (Go before 1.23, or GODEBUG asynctimerchan=1)
    nAdv,       \* time advances so far
    req,        \* the latest request to the stream endpoint and where it went
    cb,         \* the latest callback request: identity sources, resolved id, outcome
    nCb,        \* callback requests so far
    sentDirect, \* per session: the messages DirectMessage returned nil for, in call order
    snapshot,   \* the map the latest CloneClientList call returned
    found,      \* what the latest Find call returned
    rng,        \* the Range call in progress, or the latest one
    nRead,      \* Find, CloneClientList and Range calls so far
    looked,     \* the session a callback request found and has not yet called, or 0
    panicked,   \* a send on, or close of, a closed channel happened
    routes,     \* Service.routes: the registered routes, in slice order
    resolved,   \* the latest ResolveRoute call: its request and what it returned
    done,       \* Service.done is closed
    mainPc,     \* where the example program's main goroutine is
    crashed,    \* the process ended by the panic of closing a closed channel
    preq,       \* the request whose parameters are unified
    params      \* what Service.parameters returned for it

vars == <<arrivals, factory, clients, pc, handler, closed, released, cpos, ctgt, cancelled,
          cons, bq, dq, pingReady, hand, defers, log, attachedPub, nPub, nDirect, nClose,
          nTick, nCancel, lastErr, panicked, now, nextTick, asyncTimerChan, nAdv,
          req, cb, nCb, sentDirect, snapshot, found, rng, nRead, looked,
          routes, resolved, done, mainPc, crashed, preq, params>>

\* What the registry's readers keep.
readers == <<snapshot, found, rng, nRead, looked>>
\* The HTTP service the SSE server is registered on, and its example program.
svc == <<routes, resolved, done, mainPc, crashed, preq, params>>
\* Everything else.
served == <<arrivals, factory, clients, pc, handler, closed, released, cpos, ctgt, cancelled,
            cons, bq, dq, pingReady, hand, defers, log, attachedPub, nPub, nDirect, nClose,
            nTick, nCancel, lastErr, panicked, now, nextTick, asyncTimerChan, nAdv,
            req, cb, nCb, sentDirect>>

\* Whether the environment may act once more.
EnvLeft == nPub + nDirect + nClose + nTick + nCancel + nAdv + nCb + nRead < MaxEnv

\* ---------------------------------------------------------------- messages
Msg(kind, id, enc) == [kind |-> kind, id |-> id, enc |-> enc]
NoMsg == Msg("none", 0, TRUE)
OnConnectMsg(c) == Msg("on_connect", c, TRUE)
PingMsg == Msg("ping", 0, TRUE)

\* SseMessage.Encode: json.Marshal, then the frame "data: <json>\r\n\r\n".
Encode(m) ==
    IF m.enc THEN [err |-> FALSE, frame |-> <<"data: ", m, "\r\n\r\n">>]
    ELSE [err |-> TRUE, frame |-> <<>>]

\* A log entry, stamped with the time.
Entry(ev, m, ret) == [ev |-> ev, m |-> m, ret |-> ret, at |-> now]

ErrNone == "nil"
ErrClosed == "session closed"
ErrFull == "direct message buffer full"

\* ---------------------------------------------------------------- requests
\* A character string is a sequence of tokens; each token stands for a piece of
\* text without comma, semicolon or blank, or for one of those three characters.
EventStream == <<"text/event-stream">>
AcceptTokens == {"text/event-stream", "text/html", ",", ";", " "}
RECURSIVE SeqsUpTo(_, _)
SeqsUpTo(S, n) ==
    IF n = 0 THEN {<<>>}
    ELSE LET shorter == SeqsUpTo(S, n - 1)
         IN shorter \cup {Append(q, x) : q \in shorter, x \in S}
\* The Accept headers requests come with.
AcceptHeaders == SeqsUpTo(AcceptTokens, MaxAcceptLen)

\* ClientID(broadcastConsumer.Id()): the id of connection c's session.
ClientID(c) == ToString(c)
\* The values an X-Client-ID header has (Header.Get gives "" for a missing one):
\* empty, the id of a connection, an id no connection has.
HeaderValues == {""} \cup {ClientID(c) : c \in Conns} \cup {"x"}
\* HttpParameterT[string](r, name): ok is false when the parameter is missing.
Absent == [ok |-> FALSE, v |-> ""]
Param(v) == [ok |-> TRUE, v |-> v]
ParamValues == {Absent} \cup {Param(v) : v \in HeaderValues}

NoRequest == [accept |-> <<>>, hdr |-> "", kind |-> "none"]
StreamRequest(accept, hdr) == [accept |-> accept, hdr |-> hdr, kind |-> "stream"]
CallbackRequest(accept, hdr) == [accept |-> accept, hdr |-> hdr, kind |-> "callback"]
ErrMissing == "missing client_id"
ErrNotFound == "client not found"
NoCallback == [hdr |-> "", cid |-> Absent, oid |-> Absent, id |-> "", err |-> ErrNone, to |-> 0]

\* Nothing read from the registry yet.
NoSnapshot == [alias |-> FALSE, m |-> {}, n |-> 0]
NoFind == [id |-> "", session |-> 0, exists |-> FALSE]
NoRange == [active |-> FALSE, visited |-> <<>>, stopped |-> FALSE, at |-> {}, n |-> 0]

\* A request whose path and parameters are of no interest.
NoParamRequest == [method |-> "GET", ct |-> <<>>, query |-> <<>>, uri |-> <<>>, body |-> <<>>,
                   valid |-> TRUE, readable |-> TRUE, qerr |-> FALSE]
NoParams == [called |-> FALSE, err |-> FALSE, m |-> <<>>]
NoResolve == [method |-> "", path |-> <<>>, globs |-> {}, found |-> FALSE, route |-> 0]

\* ServiceBuilder.Build(): "done: make(chan struct{}), routes: make(...)"; no
\* request has been served.
ServiceBuilt ==
    /\ routes = <<>>
    /\ resolved = NoResolve
    /\ done = FALSE
    /\ mainPc = "init"
    /\ crashed = FALSE
    /\ params = NoParams

\* -------------------------------------------------------------------- Init
\* The SSE server after RegisterSSE: nothing closed, cancelled, published or called yet.
SseIdle ==
    /\ factory \in {"nil", "some"}
    /\ closed = [c \in Conns |-> FALSE]
    /\ released = [c \in Conns |-> [wins |-> 0, done |-> 0, consumer |-> 0, direct |-> 0]]
    /\ cpos = [t \in Threads |-> "none"]
    /\ ctgt = 1
    /\ cancelled = [c \in Conns |-> FALSE]
    /\ bq = [c \in Conns |-> <<>>]
    /\ pingReady = [c \in Conns |-> FALSE]
    /\ hand = [c \in Conns |-> NoMsg]
    /\ attachedPub = [c \in Conns |-> <<>>]
    /\ nPub = 0
    /\ nDirect = 0
    /\ nClose = 0
    /\ nTick = 0
    /\ nCancel = 0
    /\ nAdv = 0
    /\ now = 0
    /\ cb = NoCallback
    /\ nCb = 0
    /\ snapshot = NoSnapshot
    /\ found = NoFind
    /\ rng = NoRange
    /\ nRead = 0
    /\ looked = 0
    /\ lastErr = [s |-> 0, err |-> ErrNone]
    /\ panicked = FALSE

\* The service and its SSE server, with no request under way.
Idle ==
    /\ SseIdle
    /\ ServiceBuilt
    /\ preq = NoParamRequest

\* No request has arrived.
NoRequests ==
    /\ clients = {}
    /\ pc = [c \in Conns |-> "absent"]
    /\ handler = [c \in Conns |-> FALSE]
    /\ cons = [c \in Conns |-> "none"]
    /\ dq = [c \in Conns |-> <<>>]
    /\ defers = [c \in Conns |-> <<>>]
    /\ log = [c \in Conns |-> <<>>]
    /\ nextTick = [c \in Conns |-> 0]
    /\ req = NoRequest
    /\ sentDirect = [c \in Conns |-> <<>>]

\* One connection, with every kind of call and event around it.
Init ==
    /\ arrivals = 1
    /\ asyncTimerChan \in BOOLEAN
    /\ Idle
    /\ NoRequests

\* ----------------------------------------------------- SseSession.DirectMessage
\* DirectMessage without the closed test.
DirectMessageResultUnguarded(s, m) ==
    IF released[s].direct > 0 THEN [err |-> ErrNone, q |-> dq[s], panic |-> TRUE]
    ELSE IF Len(dq[s]) < DirectCap THEN [err |-> ErrNone, q |-> Append(dq[s], m), panic |-> FALSE]
    ELSE [err |-> ErrFull, q |-> dq[s], panic |-> FALSE]

\* DirectMessage that attempts the send before it looks at the closed flag.
DirectMessageResultSendFirst(s, m) ==
    IF released[s].direct > 0 THEN [err |-> ErrNone, q |-> dq[s], panic |-> TRUE]
    ELSE IF Len(dq[s]) < DirectCap THEN [err |-> ErrNone, q |-> Append(dq[s], m), panic |-> FALSE]
    ELSE IF closed[s] THEN [err |-> ErrClosed, q |-> dq[s], panic |-> FALSE]
    ELSE [err |-> ErrFull, q |-> dq[s], panic |-> FALSE]

\* DirectMessage accepting one message more than the channel holds.
DirectMessageResultOffByOne(s, m) ==
    IF closed[s] THEN [err |-> ErrClosed, q |-> dq[s], panic |-> FALSE]
    ELSE IF released[s].direct > 0 THEN [err |-> ErrNone, q |-> dq[s], panic |-> TRUE]
    ELSE IF Len(dq[s]) <= DirectCap THEN [err |-> ErrNone, q |-> Append(dq[s], m), panic |-> FALSE]
    ELSE [err |-> ErrFull, q |-> dq[s], panic |-> FALSE]

\* The locked section of DirectMessage on session s: the error it returns and
\* the direct queue afterwards.
DirectMessageResult(s, m) ==
    IF closed[s] THEN [err |-> ErrClosed, q |-> dq[s], panic |-> FALSE]
    ELSE IF released[s].direct > 0 THEN [err |-> ErrNone, q |-> dq[s], panic |-> TRUE]
    ELSE IF Len(dq[s]) < DirectCap THEN [err |-> ErrNone, q |-> Append(dq[s], m), panic |-> FALSE]
    ELSE [err |-> ErrFull, q |-> dq[s], panic |-> FALSE]

\* The messages DirectMessage has returned nil for, after a call with result r.
Sent(s, m, r) ==
    IF r.err = ErrNone /\ ~r.panic THEN [sentDirect EXCEPT ![s] = Append(@, m)]
    ELSE sentDirect

\* An application thread (a handler hook, or code that found the session in the
\* registry) calls session.DirectMessage(m).
DirectMessage(s, enc) ==
    /\ pc[s] # "absent"
    /\ nDirect < MaxDirect
    /\ EnvLeft
    /\ LET m == Msg("direct", nDirect + 1, enc)
           r == DirectMessageResult(s, m)
       IN /\ dq' = [dq EXCEPT ![s] = r.q]
          /\ panicked' = (panicked \/ r.panic)
          /\ lastErr' = [s |-> s, err |-> r.err]
          /\ sentDirect' = Sent(s, m, r)
    /\ nDirect' = nDirect + 1
    /\ UNCHANGED <<svc, hand, arrivals, readers, factory, cb, nCb, req, now, asyncTimerChan, nAdv, nextTick, defers, clients, pc, handler, closed, released, cpos, ctgt,
                   cancelled, cons, bq, pingReady, log, attachedPub, nPub, nClose, nTick, nCancel>>


\* ------------------------------------------------------------ SseSession.Close
Target(t) == IF t \in Conns THEN t ELSE ctgt

\* Close without the closed test.
CloseAlreadyNever(s) == FALSE

\* "if s.closed { return }", evaluated under s.mu.
CloseAlready(s) == closed[s]

\* Close has returned in thread t; a worker goes on with its next deferred call.
CloseReturn(t) ==
    /\ cpos' = [cpos EXCEPT ![t] = "none"]
    /\ pc' = IF t \in Conns
             THEN [pc EXCEPT ![t] = IF Tail(defers[t]) = <<>> THEN "returned" ELSE "unwinding"]
             ELSE pc
    /\ defers' = IF t \in Conns THEN [defers EXCEPT ![t] = Tail(@)] ELSE defers

\* Lock, test the closed flag, set it, unlock.
CloseEnter(t) ==
    /\ cpos[t] = "call"
    /\ LET s == Target(t) IN
       IF CloseAlready(s)
       THEN /\ CloseReturn(t)
            /\ UNCHANGED <<closed, released>>
       ELSE /\ closed' = [closed EXCEPT ![s] = TRUE]
            /\ released' = [released EXCEPT ![s].wins = @ + 1]
            /\ cpos' = [cpos EXCEPT ![t] = "done"]
            /\ UNCHANGED <<pc, defers>>
    /\ UNCHANGED <<svc, hand, arrivals, sentDirect, readers, factory, cb, nCb, req, now, asyncTimerChan, nAdv, nextTick, clients, handler, ctgt, cancelled, cons, bq, dq, pingReady,
                   log, attachedPub, nPub, nDirect, nClose, nTick, lastErr, panicked, nCancel>>

\* close(s.done)
CloseDone(t) ==
    /\ cpos[t] = "done"
    /\ LET s == Target(t) IN
       /\ released' = [released EXCEPT ![s].done = @ + 1]
       /\ panicked' = (panicked \/ released[s].done > 0)
    /\ cpos' = [cpos EXCEPT ![t] = "consumer"]
    /\ UNCHANGED <<svc, hand, arrivals, sentDirect, readers, factory, cb, nCb, req, now, asyncTimerChan, nAdv, nextTick, defers, clients, pc, handler, closed, ctgt, cancelled, cons, bq, dq,
                   pingReady, log, attachedPub, nPub, nDirect, nClose, nTick, lastErr, nCancel>>

\* s.broadcast_messages.Close()
CloseConsumer(t) ==
    /\ cpos[t] = "consumer"
    /\ LET s == Target(t) IN
       /\ released' = [released EXCEPT ![s].consumer = @ + 1]
       /\ cons' = [cons EXCEPT ![s] = "released"]
    /\ cpos' = [cpos EXCEPT ![t] = "direct"]
    /\ UNCHANGED <<svc, hand, arrivals, sentDirect, readers, factory, cb, nCb, req, now, asyncTimerChan, nAdv, nextTick, defers, clients, pc, handler, closed, ctgt, cancelled, bq, dq,
                   pingReady, log, attachedPub, nPub, nDirect, nClose, nTick, lastErr,
                   panicked, nCancel>>

\* close(s.direct_messages), then return
CloseDirect(t) ==
    /\ cpos[t] = "direct"
    /\ LET s == Target(t) IN
       /\ released' = [released EXCEPT ![s].direct = @ + 1]
       /\ panicked' = (panicked \/ released[s].direct > 0)
    /\ CloseReturn(t)
    /\ UNCHANGED <<svc, hand, arrivals, sentDirect, readers, factory, cb, nCb, req, now, asyncTimerChan, nAdv, nextTick, clients, handler, closed, ctgt, cancelled, cons, bq, dq,
                   pingReady, log, attachedPub, nPub, nDirect, nClose, nTick, lastErr, nCancel>>

\* The application thread calls Close on a session it holds a pointer to.
AppClose(s) ==
    /\ cpos[Closer] = "none"
    /\ pc[s] # "absent"
    /\ nClose < MaxCloseCalls
    /\ EnvLeft
    /\ nClose' = nClose + 1
    /\ ctgt' = s
    /\ cpos' = [cpos EXCEPT ![Closer] = "call"]
    /\ UNCHANGED <<svc, hand, arrivals, sentDirect, readers, factory, cb, nCb, req, now, asyncTimerChan, nAdv, nextTick, defers, clients, pc, handler, closed, released, cancelled, cons, bq,
                   dq, pingReady, log, attachedPub, nPub, nDirect, nTick, lastErr,
                   panicked, nCancel>>

\* ------------------------------------------------------------ fan-out primitive
\* Producer.Write: a copy of m goes to the queue of every attached consumer
\* whose buffer has a free slot; for a consumer whose buffer is full the message
\* is dropped.  The primitive's code is outside the repository: this is the
\* specification's description of it.
Publish(m) ==
    [c \in Conns |-> IF cons[c] = "attached" /\ Len(bq[c]) < BroadcastCap
                     THEN Append(bq[c], m)
                     ELSE bq[c]]

\* A Broadcast that drops the message.
SseServerBroadcastDropped(m) == bq

\* SseServer.Broadcast(msg): "s.fanout.Write(msg)"; the broadcast queues afterwards.
SseServerBroadcast(m) == Publish(m)

\* An application thread calls SseServer.Broadcast.
Broadcast(enc) ==
    /\ nPub < MaxBroadcasts
    /\ EnvLeft
    /\ LET m == Msg("bcast", nPub + 1, enc) IN
       /\ bq' = SseServerBroadcast(m)
       /\ attachedPub' = [c \in Conns |-> IF cons[c] = "attached"
                                         THEN Append(attachedPub[c], m.id)
                                         ELSE attachedPub[c]]
    /\ nPub' = nPub + 1
    /\ UNCHANGED <<svc, hand, arrivals, sentDirect, readers, factory, cb, nCb, req, now, asyncTimerChan, nAdv, nextTick, defers, clients, pc, handler, closed, released, cpos, ctgt, cancelled,
                   cons, dq, pingReady, log, nDirect, nClose, nTick, lastErr, panicked, nCancel>>

\* The worker of c is inside the multiplex loop: waiting in the select, or
\* encoding and writing the message it received.
InLoop(c) == pc[c] \in {"loop", "writing"}

\* The consumer created with rctx is released once rctx is done.
ConsumerCtxRelease(c) ==
    /\ cancelled[c]
    /\ cons[c] = "attached"
    /\ cons' = [cons EXCEPT ![c] = "released"]
    /\ UNCHANGED <<svc, hand, arrivals, sentDirect, readers, factory, cb, nCb, req, now, asyncTimerChan, nAdv, nextTick, defers, clients, pc, handler, closed, released, cpos, ctgt, cancelled,
                   bq, dq, pingReady, log, attachedPub, nPub, nDirect, nClose, nTick,
                   lastErr, panicked, nCancel>>

\* The request's context is cancelled: the client went away or the server shuts
\* down.  The log entry records whether the worker was waiting in the select of
\* the loop.
ClientCancel(c) ==
    /\ pc[c] \notin {"absent", "returned"}
    /\ ~cancelled[c]
    /\ EnvLeft
    /\ nCancel' = nCancel + 1
    /\ cancelled' = [cancelled EXCEPT ![c] = TRUE]
    /\ log' = [log EXCEPT ![c] = Append(@, Entry("cancelled", NoMsg, pc[c] = "loop"))]
    /\ UNCHANGED <<svc, hand, arrivals, sentDirect, readers, factory, cb, nCb, req, now, asyncTimerChan, nAdv, nextTick, defers, clients, pc, handler, closed, released, cpos, ctgt, cons, bq,
                   dq, pingReady, attachedPub, nPub, nDirect, nClose, nTick, lastErr,
                   panicked>>

\* The ticker's period has elapsed: a tick goes to pingTicker.C, which holds at
\* most one (a tick that finds the channel full is dropped).
TickerFire(c) ==
    /\ InLoop(c)
    /\ now = nextTick[c]
    /\ nTick < MaxTicks
    /\ EnvLeft
    /\ nTick' = nTick + 1
    /\ pingReady' = [pingReady EXCEPT ![c] = TRUE]
    /\ nextTick' = [nextTick EXCEPT ![c] = now + PingInterval]
    /\ UNCHANGED <<svc, hand, arrivals, sentDirect, readers, factory, cb, nCb, req, now, asyncTimerChan, nAdv, defers, clients, pc, handler, closed,
                   released, cpos, ctgt, cancelled, cons, bq, dq, log, attachedPub, nPub,
                   nDirect, nClose, lastErr, panicked, nCancel>>

\* d seconds pass.  Time does not pass a running ticker's deadline before the
\* tick is sent.
Advance(d) ==
    /\ nAdv < MaxAdvance
    /\ EnvLeft
    /\ \E c \in Conns : InLoop(c)
    /\ \A c \in Conns : InLoop(c) => now + d <= nextTick[c]
    /\ now' = now + d
    /\ nAdv' = nAdv + 1
    /\ UNCHANGED <<svc, hand, arrivals, sentDirect, readers, factory, cb, nCb, req, asyncTimerChan, nextTick, defers, clients, pc, handler, closed,
                   released, cpos, ctgt, cancelled, cons, bq, dq, pingReady, log, attachedPub,
                   nPub, nDirect, nClose, nTick, lastErr, panicked, nCancel>>


\* ------------------------------------------------------------ containsAcceptType
RECURSIVE Split(_, _)
\* strings.Split(s, sep): the pieces between the separators, one more than there
\* are separators.
Split(s, sep) ==
    IF s = <<>> THEN << <<>> >>
    ELSE LET rest == Split(Tail(s), sep)
         IN IF Head(s) = sep THEN << <<>> >> \o rest
            ELSE << <<Head(s)>> \o Head(rest) >> \o Tail(rest)

RECURSIVE TrimLeft(_)
TrimLeft(s) == IF s # <<>> /\ Head(s) = " " THEN TrimLeft(Tail(s)) ELSE s
RECURSIVE TrimRight(_)
TrimRight(s) ==
    IF s # <<>> /\ s[Len(s)] = " " THEN TrimRight(SubSeq(s, 1, Len(s) - 1)) ELSE s
\* strings.TrimSpace
TrimSpace(s) == TrimRight(TrimLeft(s))

\* Some comma-separated part of the header, cut at its first semicolon and
\* trimmed, is the expected type.
containsAcceptType(acceptHeader, expectedType) ==
    LET parts == Split(acceptHeader, ",")
    IN \E i \in 1..Len(parts) : TrimSpace(Split(parts[i], ";")[1]) = expectedType

\* The discriminator that looks at the client id header only.
IsCallbackRequestByHeader(accept, hdr) == hdr # ""

\* "if !containsAcceptType(acceptHeader, "text/event-stream") && clientID != """
IsCallbackRequest(accept, hdr) == ~containsAcceptType(accept, EventStream) /\ hdr # ""

\* -------------------------------------------------------------- handleCallback
Logged(c, entries) == [log EXCEPT ![c] = @ \o entries]

\* Resolution that prefers the client_id parameter to the header.
ResolveClientIDParamFirst(hdr, cid, oid) ==
    LET a == IF cid.ok /\ cid.v # "" THEN cid.v ELSE ""
        b == IF a = "" THEN hdr ELSE a
    IN IF b = "" THEN (IF oid.ok /\ oid.v # "" THEN oid.v ELSE "") ELSE b

\* The client id of a callback request: the X-Client-ID header, else the
\* client_id parameter, else the observer_id parameter, each only when non-empty.
ResolveClientID(hdr, cid, oid) ==
    LET a == IF hdr # "" THEN hdr ELSE ""
        b == IF a = "" THEN (IF cid.ok /\ cid.v # "" THEN cid.v ELSE "") ELSE a
    IN IF b = "" THEN (IF oid.ok /\ oid.v # "" THEN oid.v ELSE "") ELSE b

\* The missing-id test that never fails.
MissingClientIDNever(id) == FALSE

\* "if clientID == """
MissingClientID(id) == id = ""

\* "session, exists := srv.clients[clientID]"
Exists(id) == \E c \in clients : ClientID(c) = id

\* A lookup that gives some registered session.
SessionForAny(id) == CHOOSE c \in clients : \A d \in clients : c >= d

SessionFor(id) == CHOOSE c \in clients : ClientID(c) = id

\* handleCallback(w, r) up to the lookup: the identity is resolved, then
\* "srv.mu.RLock(); session, exists := srv.clients[clientID]; srv.mu.RUnlock()".
\* A request with no identity or an unknown one is answered here; otherwise
\* the request holds the session it found, with no lock held.  One callback
\* request is in flight at a time.
HandleCallback(hdr, cid, oid) ==
    /\ looked = 0
    /\ nCb < MaxCallbacks
    /\ EnvLeft
    /\ nCb' = nCb + 1
    /\ LET id == ResolveClientID(hdr, cid, oid)
           call == [hdr |-> hdr, cid |-> cid, oid |-> oid, id |-> id, err |-> ErrNone, to |-> 0]
       IN IF MissingClientID(id)
          THEN cb' = [call EXCEPT !.err = ErrMissing] /\ looked' = 0
          ELSE IF ~Exists(id)
          THEN cb' = [call EXCEPT !.err = ErrNotFound] /\ looked' = 0
          ELSE cb' = call /\ looked' = SessionFor(id)
    /\ UNCHANGED <<snapshot, found, rng, nRead>>
    /\ UNCHANGED <<svc, hand, arrivals, sentDirect, factory, now, asyncTimerChan, nAdv, nextTick, defers, clients, pc,
                   handler, closed, released, cpos, ctgt, cancelled, cons, bq, dq, pingReady,
                   log, attachedPub, nPub,
                   nDirect, nClose, nTick, lastErr, panicked, nCancel>>

\* handleCallback after the lookup: "if session.user_handler != nil {
\* session.user_handler.OnCallback(w, r) }", on the session found earlier,
\* whatever its worker has done since.  session.user_handler is read without a
\* lock: a request that overlaps the worker's assignment sees the field before
\* or after it.  rb says whether OnCallback calls srv.Broadcast, as the chat
\* room handler does for a chat message.
CallbackInvoke(rb) ==
    /\ looked # 0
    /\ looked' = 0
    /\ LET pub == rb /\ nPub < MaxBroadcasts
           m == Msg("bcast", nPub + 1, TRUE)
       IN IF handler[looked]
          THEN /\ cb' = [cb EXCEPT !.to = looked]
               /\ log' = Logged(looked, <<Entry("OnCallback", NoMsg, pub)>>)
               /\ bq' = IF pub THEN SseServerBroadcast(m) ELSE bq
               /\ attachedPub' =
                      IF pub
                      THEN [c \in Conns |-> IF cons[c] = "attached"
                                            THEN Append(attachedPub[c], m.id)
                                            ELSE attachedPub[c]]
                      ELSE attachedPub
               /\ nPub' = IF pub THEN nPub + 1 ELSE nPub
          ELSE UNCHANGED <<cb, log, bq, attachedPub, nPub>>
    /\ UNCHANGED <<snapshot, found, rng, nRead>>
    /\ UNCHANGED <<svc, hand, arrivals, sentDirect, factory, now, asyncTimerChan, nAdv, nextTick, defers, clients, pc,
                   handler, closed, released, cpos, ctgt, cancelled, cons, dq, pingReady,
                   req, nCb,
                   nDirect, nClose, nTick, lastErr, panicked, nCancel>>

\* ------------------------------------------------------------ registry reads
\* srv.mu is never read-locked.
ReadLockedNever == FALSE

\* srv.mu is read-locked by a Range call in progress: Lock() waits.  Find,
\* CloneClientList and the lookup of handleCallback hold the read lock within
\* one step.
ReadLocked == rng.active

\* SseServer.Find(client_id): "session, exists := s.clients[client_id]" under RLock.
Find(id) ==
    /\ nRead < MaxReads
    /\ EnvLeft
    /\ nRead' = nRead + 1
    /\ found' = IF Exists(id) THEN [id |-> id, session |-> SessionFor(id), exists |-> TRUE]
                ELSE [id |-> id, session |-> 0, exists |-> FALSE]
    /\ UNCHANGED <<svc, served, snapshot, rng, looked>>

\* CloneClientList returning the registry's own map.
CloneResultAliased == [alias |-> TRUE, m |-> clients, n |-> nRead + 1]

\* "clones := make(...); for k, v := range s.clients { clones[k] = v }": a new map
\* with the entries the registry has now.
CloneResult == [alias |-> FALSE, m |-> clients, n |-> nRead + 1]

\* The entries a caller finds in the map CloneClientList returned.
SnapshotValue == IF snapshot.alias THEN clients ELSE snapshot.m

\* SseServer.CloneClientList(), under RLock.
CloneClientList ==
    /\ nRead < MaxReads
    /\ EnvLeft
    /\ nRead' = nRead + 1
    /\ snapshot' = CloneResult
    /\ UNCHANGED <<svc, served, found, rng, looked>>

\* The sessions fn has been called with in the Range call.
Visited == {rng.visited[i] : i \in 1..Len(rng.visited)}

\* SseServer.Range(fn): RLock, "defer s.mu.RUnlock()", the loop starts.
RangeBegin ==
    /\ ~rng.active
    /\ nRead < MaxReads
    /\ EnvLeft
    /\ nRead' = nRead + 1
    /\ rng' = [active |-> TRUE, visited |-> <<>>, stopped |-> FALSE, at |-> clients,
               n |-> nRead + 1]
    /\ UNCHANGED <<svc, served, snapshot, found, looked>>

\* "for _, session := range s.clients { if !fn(session) { break } }": one
\* iteration, on an entry of the map not yet visited, in any order; cont is
\* what fn returns.
RangeCall(s, cont) ==
    /\ rng.active
    /\ ~rng.stopped
    /\ s \in clients \ Visited
    /\ rng' = [rng EXCEPT !.visited = Append(@, s), !.stopped = ~cont]
    /\ UNCHANGED <<svc, served, snapshot, found, nRead, looked>>

\* The loop has ended, by break or with no entry left: RUnlock, return.
RangeReturn ==
    /\ rng.active
    /\ rng.stopped \/ clients \ Visited = {}
    /\ rng' = [rng EXCEPT !.active = FALSE]
    /\ UNCHANGED <<svc, served, snapshot, found, nRead, looked>>

\* A POST to the callback route, up to the lookup.
PostCallback(hdr, cid, oid) ==
    /\ HandleCallback(hdr, cid, oid)
    /\ UNCHANGED req

\* A request to the stream endpoint that the discriminator hands to
\* handleCallback, up to the lookup.
RouteCallback(accept, hdr, cid, oid) ==
    /\ nCb < MaxCallbacks
    /\ IsCallbackRequest(accept, hdr)
    /\ req' = CallbackRequest(accept, hdr)
    /\ HandleCallback(hdr, cid, oid)

\* --------------------------------------------------------- connection worker

\* The teardown closure is not deferred.
DefersAtHandshakeNone == <<>>

\* session.Close is not deferred.
DefersAtAcceptNoClose == <<"cancel">>

\* Calls deferred by the route handler, the next one to run first.
DefersAtAccept == <<"close", "cancel">>
DefersAtHandshake == <<"teardown">>
DefersAtLoop == <<"tickerStop">>

\* The handler function returns at position c: its deferred calls run next.
Unwinding(c) == [pc EXCEPT ![c] = "unwinding"]

\* One deferred call has run: the rest of the stack, and the worker's position.
Popped(c) == [defers EXCEPT ![c] = Tail(@)]
AfterDeferred(c) ==
    [pc EXCEPT ![c] = IF Tail(defers[c]) = <<>> THEN "returned" ELSE "unwinding"]

\* A request to the stream endpoint that the discriminator lets through arrives:
\* "defer cancel()", CreateConsumer(rctx), the
\* session is built and stored in srv.clients, "defer session.Close()".
Accept(c, accept, hdr) ==
    /\ pc[c] = "absent"
    /\ c <= arrivals
    /\ \A d \in Conns : d < c => pc[d] # "absent"
    /\ ~ReadLocked
    /\ ~IsCallbackRequest(accept, hdr)
    /\ req' = StreamRequest(accept, hdr)
    /\ cons' = [cons EXCEPT ![c] = "attached"]
    /\ clients' = clients \cup {c}
    /\ defers' = [defers EXCEPT ![c] = DefersAtAccept]
    /\ pc' = [pc EXCEPT ![c] = "accepted"]
    /\ UNCHANGED <<svc, hand, arrivals, sentDirect, readers, factory, cb, nCb, now, asyncTimerChan, nAdv, nextTick, handler, closed, released, cpos, ctgt, cancelled,
                   bq, dq, pingReady, log, attachedPub, nPub, nDirect, nClose, nTick,
                   nCancel, lastErr, panicked>>

\* What is deferred when the handler reaches srv.mu.Lock(): cancel.
DefersAtLock == <<"cancel">>

\* The same request arriving while srv.mu is read-locked: "defer cancel()" and
\* CreateConsumer(rctx) are done and the worker waits at srv.mu.Lock().
AcceptWaiting(c, accept, hdr) ==
    /\ pc[c] = "absent"
    /\ c <= arrivals
    /\ \A d \in Conns : d < c => pc[d] # "absent"
    /\ ReadLocked
    /\ ~IsCallbackRequest(accept, hdr)
    /\ req' = StreamRequest(accept, hdr)
    /\ cons' = [cons EXCEPT ![c] = "attached"]
    /\ defers' = [defers EXCEPT ![c] = DefersAtLock]
    /\ pc' = [pc EXCEPT ![c] = "registering"]
    /\ UNCHANGED <<svc, hand, arrivals, sentDirect, readers, factory, cb, nCb, now, asyncTimerChan, nAdv, nextTick, clients, handler, closed, released, cpos, ctgt, cancelled,
                   bq, dq, pingReady, log, attachedPub, nPub, nDirect, nClose, nTick,
                   nCancel, lastErr, panicked>>

\* The lock is free: "srv.clients[client_id] = session", "defer session.Close()".
Register(c) ==
    /\ pc[c] = "registering"
    /\ ~ReadLocked
    /\ clients' = clients \cup {c}
    /\ defers' = [defers EXCEPT ![c] = DefersAtAccept]
    /\ pc' = [pc EXCEPT ![c] = "accepted"]
    /\ UNCHANGED <<svc, hand, arrivals, sentDirect, readers, factory, cb, nCb, req, now, asyncTimerChan, nAdv, nextTick, handler, closed, released, cpos, ctgt, cancelled,
                   cons, bq, dq, pingReady, log, attachedPub, nPub, nDirect, nClose, nTick,
                   nCancel, lastErr, panicked>>

\* "if srv.factory != nil { uh := srv.factory(); if uh != nil {": the handler is
\* attached and OnInitialize is called; uh is what the factory returned.
SetHandler(c, uh) ==
    /\ pc[c] = "accepted"
    /\ IF factory # "nil" /\ uh
       THEN /\ handler' = [handler EXCEPT ![c] = TRUE]
            /\ pc' = [pc EXCEPT ![c] = "initializing"]
            /\ log' = Logged(c, <<Entry("OnInitialize", NoMsg, TRUE)>>)
       ELSE /\ pc' = [pc EXCEPT ![c] = "handshake"]
            /\ UNCHANGED <<handler, log>>
    /\ UNCHANGED <<svc, hand, arrivals, sentDirect, readers, factory, cb, nCb, req, now, asyncTimerChan, nAdv, nextTick, clients, closed, released, cpos, ctgt, cancelled,
                   cons, bq, dq, pingReady, defers, attachedPub, nPub, nDirect, nClose,
                   nTick, nCancel, lastErr, panicked>>

\* The OnInitialize error is ignored.
InitErrorIgnored(ok) == FALSE

\* "if err := uh.OnInitialize(...); err != nil { WriteError(w, err); return }"
InitErrorReturns(ok) == ~ok

\* OnInitialize returns; ok is FALSE when it returned an error.
InitializeReturn(c, ok) ==
    /\ pc[c] = "initializing"
    /\ IF InitErrorReturns(ok)
       THEN /\ log' = Logged(c, <<Entry("InitReturn", NoMsg, ok),
                                  Entry("WriteError", NoMsg, TRUE)>>)
            /\ pc' = Unwinding(c)
       ELSE /\ log' = Logged(c, <<Entry("InitReturn", NoMsg, ok)>>)
            /\ pc' = [pc EXCEPT ![c] = "handshake"]
    /\ UNCHANGED <<svc, hand, arrivals, sentDirect, readers, factory, cb, nCb, req, now, asyncTimerChan, nAdv, nextTick, clients, handler, closed, released, cpos, ctgt,
                   cancelled, cons, bq, dq, pingReady, defers, attachedPub, nPub, nDirect,
                   nClose, nTick, nCancel, lastErr, panicked>>

\* The teardown closure is deferred, then session.DirectMessage(on_connect); its
\* error is ignored.
Handshake(c) ==
    /\ pc[c] = "handshake"
    /\ defers' = [defers EXCEPT ![c] = DefersAtHandshake \o @]
    /\ LET r == DirectMessageResult(c, OnConnectMsg(c)) IN
       /\ dq' = [dq EXCEPT ![c] = r.q]
       /\ panicked' = (panicked \/ r.panic)
       /\ sentDirect' = Sent(c, OnConnectMsg(c), r)
    /\ pc' = [pc EXCEPT ![c] = "connecting"]
    /\ UNCHANGED <<svc, hand, arrivals, readers, factory, cb, nCb, req, now, asyncTimerChan, nAdv, nextTick, clients, handler, closed, released, cpos, ctgt,
                   cancelled, cons, bq, pingReady, log, attachedPub, nPub, nDirect, nClose,
                   nTick, nCancel, lastErr>>

\* time.NewTicker(pingInterval) and pingTicker.Reset(pingInterval): the next tick
\* comes one interval from now.
TickerDeadline(c) == [nextTick EXCEPT ![c] = now + PingInterval]

\* pingTicker.Reset(pingInterval): a tick already waiting in the channel stays
\* when the build has asynchronous timer channels, and is discarded otherwise.
TickerReset(c) == IF asyncTimerChan THEN pingReady ELSE [pingReady EXCEPT ![c] = FALSE]

\* The OnConnect error is ignored.
ConnectErrorIgnored(c, ok) == FALSE

\* "if session.user_handler != nil { if err := ...OnConnect(w, r); err != nil {"
ConnectErrorReturns(c, ok) == handler[c] /\ ~ok

\* OnConnect is called when there is a handler; on error WriteError and return,
\* otherwise the ticker is created, its Stop deferred, and the loop is entered.
Connect(c, ok) ==
    /\ pc[c] = "connecting"
    /\ IF ConnectErrorReturns(c, ok)
       THEN /\ log' = Logged(c, <<Entry("OnConnect", NoMsg, FALSE),
                                  Entry("WriteError", NoMsg, TRUE)>>)
            /\ pc' = Unwinding(c)
            /\ defers' = defers
            /\ nextTick' = nextTick
       ELSE /\ handler[c] \/ ok
            /\ log' = IF handler[c] THEN Logged(c, <<Entry("OnConnect", NoMsg, ok)>>)
                      ELSE log
            /\ pc' = [pc EXCEPT ![c] = "loop"]
            /\ defers' = [defers EXCEPT ![c] = DefersAtLoop \o @]
            /\ nextTick' = TickerDeadline(c)
    /\ UNCHANGED <<svc, hand, arrivals, sentDirect, readers, factory, cb, nCb, req, now, asyncTimerChan, nAdv, clients, handler, closed, released, cpos, ctgt,
                   cancelled, cons, bq, dq, pingReady, attachedPub, nPub, nDirect, nClose,
                   nTick, nCancel, lastErr, panicked>>


\* Deliver that goes on with the loop after a failed write.
DeliverRetries(c, m, filtered, ret, wok) ==
    LET seen == IF filtered /\ handler[c] THEN <<Entry("OnMessage", m, ret)>> ELSE <<>>
    IN IF filtered /\ handler[c] /\ ~ret
       THEN [seen |-> seen, pass |-> FALSE, wrote |-> <<>>, goon |-> TRUE, reset |-> FALSE]
       ELSE IF Encode(m).err
       THEN [seen |-> seen, pass |-> TRUE, wrote |-> <<Entry("WriteError", m, TRUE)>>,
             goon |-> FALSE, reset |-> FALSE]
       ELSE IF ~wok
       THEN [seen |-> seen, pass |-> TRUE, wrote |-> <<Entry("WriteFailed", m, FALSE)>>,
             goon |-> TRUE, reset |-> FALSE]
       ELSE [seen |-> seen, pass |-> TRUE, wrote |-> <<Entry("Write", m, TRUE)>>,
             goon |-> TRUE, reset |-> filtered]

\* Deliver that lets the filter's answer count when there is no handler.
DeliverFilteredAlways(c, m, filtered, ret, wok) ==
    LET seen == IF filtered /\ handler[c] THEN <<Entry("OnMessage", m, ret)>> ELSE <<>>
    IN IF filtered /\ ~ret
       THEN [seen |-> seen, pass |-> FALSE, wrote |-> <<>>, goon |-> TRUE, reset |-> FALSE]
       ELSE IF Encode(m).err
       THEN [seen |-> seen, pass |-> TRUE, wrote |-> <<Entry("WriteError", m, TRUE)>>,
             goon |-> FALSE, reset |-> FALSE]
       ELSE IF ~wok
       THEN [seen |-> seen, pass |-> TRUE, wrote |-> <<Entry("WriteFailed", m, FALSE)>>,
             goon |-> FALSE, reset |-> FALSE]
       ELSE [seen |-> seen, pass |-> TRUE, wrote |-> <<Entry("Write", m, TRUE)>>,
             goon |-> TRUE, reset |-> filtered]

\* Deliver that resets the ticker for a message OnMessage suppressed.
DeliverFilterResets(c, m, filtered, ret, wok) ==
    LET seen == IF filtered /\ handler[c] THEN <<Entry("OnMessage", m, ret)>> ELSE <<>>
    IN IF filtered /\ handler[c] /\ ~ret
       THEN [seen |-> seen, pass |-> FALSE, wrote |-> <<>>, goon |-> TRUE, reset |-> TRUE]
       ELSE IF Encode(m).err
       THEN [seen |-> seen, pass |-> TRUE, wrote |-> <<Entry("WriteError", m, TRUE)>>,
             goon |-> FALSE, reset |-> FALSE]
       ELSE IF ~wok
       THEN [seen |-> seen, pass |-> TRUE, wrote |-> <<Entry("WriteFailed", m, FALSE)>>,
             goon |-> FALSE, reset |-> FALSE]
       ELSE [seen |-> seen, pass |-> TRUE, wrote |-> <<Entry("Write", m, TRUE)>>,
             goon |-> TRUE, reset |-> filtered]

\* Deliver that writes the message whatever OnMessage answered.
DeliverUnfiltered(c, m, filtered, ret, wok) ==
    LET seen == IF filtered /\ handler[c] THEN <<Entry("OnMessage", m, ret)>> ELSE <<>>
    IN IF Encode(m).err
       THEN [seen |-> seen, pass |-> TRUE, wrote |-> <<Entry("WriteError", m, TRUE)>>,
             goon |-> FALSE, reset |-> FALSE]
       ELSE IF ~wok
       THEN [seen |-> seen, pass |-> TRUE, wrote |-> <<Entry("WriteFailed", m, FALSE)>>,
             goon |-> FALSE, reset |-> FALSE]
       ELSE [seen |-> seen, pass |-> TRUE, wrote |-> <<Entry("Write", m, TRUE)>>,
             goon |-> TRUE, reset |-> filtered]

\* What one message taken in the loop goes through: OnMessage (when there is a
\* handler), then Encode, Write, Flush and ticker reset (w is an http.Flusher).
\* filtered says whether OnMessage is consulted, ret is its answer, wok whether
\* w.Write succeeds.  Yields the entry of the hook call (seen), whether the
\* message goes on to be written (pass), the entry of the write (wrote), whether
\* the loop goes on, and whether the ticker is reset.
Deliver(c, m, filtered, ret, wok) ==
    LET seen == IF filtered /\ handler[c] THEN <<Entry("OnMessage", m, ret)>> ELSE <<>>
    IN IF filtered /\ handler[c] /\ ~ret
       THEN [seen |-> seen, pass |-> FALSE, wrote |-> <<>>, goon |-> TRUE, reset |-> FALSE]
       ELSE IF Encode(m).err
       THEN [seen |-> seen, pass |-> TRUE, wrote |-> <<Entry("WriteError", m, TRUE)>>,
             goon |-> FALSE, reset |-> FALSE]
       ELSE IF ~wok
       THEN [seen |-> seen, pass |-> TRUE, wrote |-> <<Entry("WriteFailed", m, FALSE)>>,
             goon |-> FALSE, reset |-> FALSE]
       ELSE [seen |-> seen, pass |-> TRUE, wrote |-> <<Entry("Write", m, TRUE)>>,
             goon |-> TRUE, reset |-> filtered]

\* The newest queued broadcast is delivered first.
NextBroadcastNewest(c) == bq[c][Len(bq[c])]

\* The message the broadcast case receives from the consumer's channel.
NextBroadcast(c) == Head(bq[c])

\* The worker has received message m in a case of the select: the hook's entry
\* is logged; a message that is not suppressed is in the worker's hand, to be
\* encoded and written.
Received(c, m, d) ==
    /\ log' = Logged(c, d.seen)
    /\ pc' = IF d.pass THEN [pc EXCEPT ![c] = "writing"] ELSE pc
    /\ hand' = IF d.pass THEN [hand EXCEPT ![c] = m] ELSE hand
    /\ pingReady' = IF ~d.pass /\ d.reset THEN TickerReset(c) ELSE pingReady
    /\ nextTick' = IF ~d.pass /\ d.reset THEN TickerDeadline(c) ELSE nextTick

\* case msg, ok := <-session.broadcast_messages.Messages, with ok true, up to
\* the return of OnMessage
LoopBroadcast(c, ret) ==
    /\ pc[c] = "loop"
    /\ bq[c] # <<>>
    /\ bq' = [bq EXCEPT ![c] = Tail(@)]
    /\ Received(c, NextBroadcast(c), Deliver(c, NextBroadcast(c), TRUE, ret, TRUE))
    /\ UNCHANGED <<svc, arrivals, sentDirect, readers, factory, cb, nCb, req, now, asyncTimerChan, nAdv, clients, handler, closed, released, cpos, ctgt,
                   cancelled, cons, dq, defers, attachedPub, nPub, nDirect, nClose, nTick,
                   nCancel, lastErr, panicked>>

\* The rest of a case: msg.Encode(), then the blocking w.Write(encoded), Flush
\* and pingTicker.Reset; WriteError and return when the encoding fails, return
\* when the write fails.  A ping is not followed by a Reset.
LoopWrite(c, wok) ==
    /\ pc[c] = "writing"
    /\ LET m == hand[c]
           d == Deliver(c, m, m.kind # "ping", TRUE, wok)
       IN /\ log' = Logged(c, d.wrote)
          /\ pc' = IF d.goon THEN [pc EXCEPT ![c] = "loop"] ELSE Unwinding(c)
          /\ pingReady' = IF d.reset THEN TickerReset(c) ELSE pingReady
          /\ nextTick' = IF d.reset THEN TickerDeadline(c) ELSE nextTick
    /\ hand' = [hand EXCEPT ![c] = NoMsg]
    /\ UNCHANGED <<svc, arrivals, sentDirect, readers, factory, cb, nCb, req, now, asyncTimerChan, nAdv, clients, handler, closed, released, cpos, ctgt,
                   cancelled, cons, bq, dq, defers, attachedPub, nPub, nDirect, nClose, nTick,
                   nCancel, lastErr, panicked>>

\* A receive from a closed channel that blocks like one from an open channel.
ReceiveFailsNever(c, ch) == FALSE

\* "msg, ok := <-ch" yields ok = false: channel ch of session c is closed and
\* the messages buffered in it have been received.
ReceiveFails(c, ch) ==
    IF ch = "direct" THEN dq[c] = <<>> /\ released[c].direct > 0
    ELSE bq[c] = <<>> /\ cons[c] = "released"

\* the same case with ok false: the consumer's channel is closed and drained
LoopBroadcastClosed(c) ==
    /\ pc[c] = "loop"
    /\ ReceiveFails(c, "broadcast")
    /\ pc' = Unwinding(c)
    /\ log' = Logged(c, <<Entry("ExitBroadcastClosed", NoMsg, TRUE)>>)
    /\ UNCHANGED <<svc, hand, arrivals, sentDirect, readers, factory, cb, nCb, req, now, asyncTimerChan, nAdv, nextTick, clients, handler, closed, released, cpos, ctgt,
                   cancelled, cons, bq, dq, pingReady, defers, attachedPub, nPub, nDirect,
                   nClose, nTick, nCancel, lastErr, panicked>>

\* The newest queued direct message is delivered first.
NextDirectNewest(c) == dq[c][Len(dq[c])]

\* The message the direct case receives from the channel.
NextDirect(c) == Head(dq[c])

\* case directMsg, ok := <-session.direct_messages, with ok true, up to the
\* return of OnMessage
LoopDirect(c, ret) ==
    /\ pc[c] = "loop"
    /\ dq[c] # <<>>
    /\ dq' = [dq EXCEPT ![c] = Tail(@)]
    /\ Received(c, NextDirect(c), Deliver(c, NextDirect(c), TRUE, ret, TRUE))
    /\ UNCHANGED <<svc, arrivals, sentDirect, readers, factory, cb, nCb, req, now, asyncTimerChan, nAdv, clients, handler, closed, released, cpos, ctgt,
                   cancelled, cons, bq, defers, attachedPub, nPub, nDirect, nClose, nTick,
                   nCancel, lastErr, panicked>>

\* the same case with ok false: direct_messages is closed and drained
LoopDirectClosed(c) ==
    /\ pc[c] = "loop"
    /\ ReceiveFails(c, "direct")
    /\ pc' = Unwinding(c)
    /\ log' = Logged(c, <<Entry("ExitDirectClosed", NoMsg, TRUE)>>)
    /\ UNCHANGED <<svc, hand, arrivals, sentDirect, readers, factory, cb, nCb, req, now, asyncTimerChan, nAdv, nextTick, clients, handler, closed, released, cpos, ctgt,
                   cancelled, cons, bq, dq, pingReady, defers, attachedPub, nPub, nDirect,
                   nClose, nTick, nCancel, lastErr, panicked>>

\* case <-pingTicker.C: the tick is received and the ping message is made, to
\* be encoded and written without OnMessage
LoopPing(c) ==
    /\ pc[c] = "loop"
    /\ pingReady[c]
    /\ pingReady' = [pingReady EXCEPT ![c] = FALSE]
    /\ pc' = [pc EXCEPT ![c] = "writing"]
    /\ hand' = [hand EXCEPT ![c] = PingMsg]
    /\ UNCHANGED <<svc, arrivals, sentDirect, readers, factory, cb, nCb, req, now, asyncTimerChan, nAdv, nextTick, clients, handler, closed, released, cpos, ctgt,
                   cancelled, cons, bq, dq, defers, log, attachedPub, nPub, nDirect, nClose,
                   nTick, nCancel, lastErr, panicked>>

\* case <-done
LoopDone(c) ==
    /\ pc[c] = "loop"
    /\ cancelled[c]
    /\ pc' = Unwinding(c)
    /\ log' = Logged(c, <<Entry("ExitDone", NoMsg, TRUE)>>)
    /\ UNCHANGED <<svc, hand, arrivals, sentDirect, readers, factory, cb, nCb, req, now, asyncTimerChan, nAdv, nextTick, clients, handler, closed, released, cpos, ctgt,
                   cancelled, cons, bq, dq, pingReady, defers, attachedPub, nPub, nDirect,
                   nClose, nTick, nCancel, lastErr, panicked>>

\* deferred pingTicker.Stop()
TickerStop(c) ==
    /\ pc[c] = "unwinding"
    /\ Head(defers[c]) = "tickerStop"
    /\ pingReady' = [pingReady EXCEPT ![c] = FALSE]
    /\ defers' = Popped(c)
    /\ pc' = AfterDeferred(c)
    /\ UNCHANGED <<svc, hand, arrivals, sentDirect, readers, factory, cb, nCb, req, now, asyncTimerChan, nAdv, nextTick, clients, handler, closed, released, cpos, ctgt,
                   cancelled, cons, bq, dq, log, attachedPub, nPub, nDirect, nClose, nTick,
                   nCancel, lastErr, panicked>>

\* The registry entry is not deleted.
DeregisteredKept(c) == clients

\* The teardown empties the registry.
DeregisteredAll(c) == {}

\* "delete(srv.clients, session.client_id)" under srv.mu
Deregistered(c) == clients \ {c}

\* The deferred teardown closure, first half: the registry entry is deleted.
Deregister(c) ==
    /\ pc[c] = "unwinding"
    /\ Head(defers[c]) = "teardown"
    /\ ~ReadLocked
    /\ clients' = Deregistered(c)
    /\ pc' = [pc EXCEPT ![c] = "disconnect"]
    /\ UNCHANGED <<svc, hand, arrivals, sentDirect, readers, factory, cb, nCb, req, now, asyncTimerChan, nAdv, nextTick, handler, closed, released, cpos, ctgt, cancelled,
                   cons, bq, dq, pingReady, log, defers, attachedPub, nPub, nDirect, nClose,
                   nTick, nCancel, lastErr, panicked>>

\* The deferred teardown closure, second half: OnDisconnect when there is a handler.
Disconnect(c) ==
    /\ pc[c] = "disconnect"
    /\ log' = IF handler[c] THEN Logged(c, <<Entry("OnDisconnect", NoMsg, TRUE)>>) ELSE log
    /\ defers' = Popped(c)
    /\ pc' = AfterDeferred(c)
    /\ UNCHANGED <<svc, hand, arrivals, sentDirect, readers, factory, cb, nCb, req, now, asyncTimerChan, nAdv, nextTick, clients, handler, closed, released, cpos, ctgt,
                   cancelled, cons, bq, dq, pingReady, attachedPub, nPub, nDirect, nClose,
                   nTick, nCancel, lastErr, panicked>>

\* deferred session.Close(): the worker enters Close
DeferredClose(c) ==
    /\ pc[c] = "unwinding"
    /\ Head(defers[c]) = "close"
    /\ pc' = [pc EXCEPT ![c] = "closing"]
    /\ cpos' = [cpos EXCEPT ![c] = "call"]
    /\ UNCHANGED <<svc, hand, arrivals, sentDirect, readers, factory, cb, nCb, req, now, asyncTimerChan, nAdv, nextTick, clients, handler, closed, released, ctgt, cancelled,
                   cons, bq, dq, pingReady, log, defers, attachedPub, nPub, nDirect, nClose,
                   nTick, nCancel, lastErr, panicked>>

\* deferred cancel()
Cancel(c) ==
    /\ pc[c] = "unwinding"
    /\ Head(defers[c]) = "cancel"
    /\ cancelled' = [cancelled EXCEPT ![c] = TRUE]
    /\ defers' = Popped(c)
    /\ pc' = AfterDeferred(c)
    /\ UNCHANGED <<svc, hand, arrivals, sentDirect, readers, factory, cb, nCb, req, now, asyncTimerChan, nAdv, nextTick, clients, handler, closed, released, cpos, ctgt, cons,
                   bq, dq, pingReady, log, attachedPub, nPub, nDirect, nClose, nTick,
                   nCancel, lastErr, panicked>>

\* -------------------------------------------------------------------- Next
Next ==
    \/ \E c \in Conns : Accept(c, EventStream, "")
    \/ \E c \in Conns, uh \in BOOLEAN : SetHandler(c, uh)
    \/ \E c \in Conns, ok \in BOOLEAN : InitializeReturn(c, ok)
    \/ \E c \in Conns : Handshake(c)
    \/ \E c \in Conns, ok \in BOOLEAN : Connect(c, ok)
    \/ \E c \in Conns, ret \in BOOLEAN : LoopBroadcast(c, ret)
    \/ \E c \in Conns, wok \in BOOLEAN : LoopWrite(c, wok)
    \/ \E c \in Conns : LoopBroadcastClosed(c)
    \/ \E c \in Conns, ret \in BOOLEAN : LoopDirect(c, ret)
    \/ \E c \in Conns : LoopDirectClosed(c)
    \/ \E c \in Conns : LoopPing(c)
    \/ \E c \in Conns : LoopDone(c)
    \/ \E c \in Conns : TickerStop(c)
    \/ \E c \in Conns : Deregister(c)
    \/ \E c \in Conns : Disconnect(c)
    \/ \E c \in Conns : DeferredClose(c)
    \/ \E c \in Conns : Cancel(c)
    \/ \E t \in Threads : CloseEnter(t)
    \/ \E t \in Threads : CloseDone(t)
    \/ \E t \in Threads : CloseConsumer(t)
    \/ \E t \in Threads : CloseDirect(t)
    \/ \E s \in Conns : AppClose(s)
    \/ \E s \in Conns, enc \in BOOLEAN : DirectMessage(s, enc)
    \/ \E enc \in BOOLEAN : Broadcast(enc)
    \/ \E c \in Conns : ConsumerCtxRelease(c)
    \/ \E c \in Conns : ClientCancel(c)
    \/ \E c \in Conns : TickerFire(c)
    \/ \E d \in {1, PingInterval - 1, PingInterval} : Advance(d)

Spec == Init /\ [][Next]_vars

\* Two connections and the encodable broadcasts published around them; each
\* connection ends by a failed write or an OnConnect error.
InitFan ==
    /\ arrivals = 2
    /\ asyncTimerChan = TRUE
    /\ Idle
    /\ NoRequests

NextFan ==
    \/ \E c \in Conns : Accept(c, EventStream, "")
    \/ \E c \in Conns, uh \in BOOLEAN : SetHandler(c, uh)
    \/ \E c \in Conns, ok \in BOOLEAN : InitializeReturn(c, ok)
    \/ \E c \in Conns : Handshake(c)
    \/ \E c \in Conns, ok \in BOOLEAN : Connect(c, ok)
    \/ \E c \in Conns, ret \in BOOLEAN : LoopBroadcast(c, ret)
    \/ \E c \in Conns, wok \in BOOLEAN : LoopWrite(c, wok)
    \/ \E c \in Conns, ret \in BOOLEAN : LoopDirect(c, ret)
    \/ \E c \in Conns : TickerStop(c)
    \/ \E c \in Conns : Deregister(c)
    \/ \E c \in Conns : Disconnect(c)
    \/ \E c \in Conns : DeferredClose(c)
    \/ \E c \in Conns : Cancel(c)
    \/ \E t \in Conns : CloseEnter(t)
    \/ \E t \in Conns : CloseDone(t)
    \/ \E t \in Conns : CloseConsumer(t)
    \/ \E t \in Conns : CloseDirect(t)
    \/ Broadcast(TRUE)

SpecFan == InitFan /\ [][NextFan]_vars


\* The connection is in the loop with DirectCap - 1 or DirectCap messages waiting
\* in its direct queue, the client not reading; the application sends and closes.
BacklogQueue(c, n) ==
    [i \in 1..n |-> IF i = 1 THEN OnConnectMsg(c) ELSE Msg("direct", 0, TRUE)]

InitFull ==
    /\ arrivals = 1
    /\ asyncTimerChan = TRUE
    /\ Idle
    /\ nextTick = [c \in Conns |-> IF c = 1 THEN PingInterval ELSE 0]
    /\ req = StreamRequest(EventStream, "")
    /\ \E h \in BOOLEAN, n \in {DirectCap - 1, DirectCap} :
        LET up == [c \in Conns |-> c = 1] IN
        /\ h => factory = "some"
        /\ pc = [c \in Conns |-> IF up[c] THEN "loop" ELSE "absent"]
        /\ clients = {1}
        /\ handler = [c \in Conns |-> up[c] /\ h]
        /\ cons = [c \in Conns |-> IF up[c] THEN "attached" ELSE "none"]
        /\ defers = [c \in Conns |-> IF up[c]
                        THEN DefersAtLoop \o DefersAtHandshake \o DefersAtAccept
                        ELSE <<>>]
        /\ log = [c \in Conns |-> IF up[c] /\ h
                        THEN <<Entry("OnInitialize", NoMsg, TRUE), Entry("InitReturn", NoMsg, TRUE),
                              Entry("OnConnect", NoMsg, TRUE)>>
                        ELSE <<>>]
        /\ dq = [c \in Conns |-> IF up[c] THEN BacklogQueue(c, n) ELSE <<>>]
        /\ sentDirect = dq

NextFull ==
    \/ \E s \in Conns, enc \in BOOLEAN : DirectMessage(s, enc)
    \/ \E s \in Conns : AppClose(s)
    \/ \E t \in Threads : CloseEnter(t)
    \/ \E t \in Threads : CloseDone(t)
    \/ \E t \in Threads : CloseConsumer(t)
    \/ \E t \in Threads : CloseDirect(t)
    \/ \E c \in Conns : LoopBroadcastClosed(c)
    \/ \E c \in Conns : TickerStop(c)
    \/ \E c \in Conns : Deregister(c)
    \/ \E c \in Conns : Disconnect(c)
    \/ \E c \in Conns : DeferredClose(c)
    \/ \E c \in Conns : Cancel(c)

SpecFull == InitFull /\ [][NextFull]_vars


\* Connection 1 is in its loop, with or without a handler; a second connection
\* arrives and goes up to the loop or fails; callback requests come with every
\* combination of identity sources.
InitCb ==
    /\ arrivals = 2
    /\ asyncTimerChan = TRUE
    /\ Idle
    /\ req = StreamRequest(EventStream, "")
    /\ nextTick = [c \in Conns |-> IF c = 1 THEN PingInterval ELSE 0]
    /\ \E h \in BOOLEAN :
        LET up == [c \in Conns |-> c = 1] IN
        /\ h => factory = "some"
        /\ pc = [c \in Conns |-> IF up[c] THEN "loop" ELSE "absent"]
        /\ clients = {1}
        /\ handler = [c \in Conns |-> up[c] /\ h]
        /\ cons = [c \in Conns |-> IF up[c] THEN "attached" ELSE "none"]
        /\ defers = [c \in Conns |-> IF up[c]
                        THEN DefersAtLoop \o DefersAtHandshake \o DefersAtAccept
                        ELSE <<>>]
        /\ log = [c \in Conns |-> IF up[c] /\ h
                        THEN <<Entry("OnInitialize", NoMsg, TRUE), Entry("InitReturn", NoMsg, TRUE),
                              Entry("OnConnect", NoMsg, TRUE)>>
                        ELSE <<>>]
        /\ dq = [c \in Conns |-> IF up[c] THEN <<OnConnectMsg(c)>> ELSE <<>>]
        /\ sentDirect = dq

NextCb ==
    \/ \E c \in Conns : Accept(c, EventStream, "")
    \/ \E c \in Conns, uh \in BOOLEAN : SetHandler(c, uh)
    \/ \E c \in Conns, ok \in BOOLEAN : InitializeReturn(c, ok)
    \/ \E c \in Conns : Handshake(c)
    \/ \E c \in Conns, ok \in BOOLEAN : Connect(c, ok)
    \/ \E c \in Conns : Deregister(c)
    \/ \E c \in Conns : Disconnect(c)
    \/ \E c \in Conns : DeferredClose(c)
    \/ \E c \in Conns : Cancel(c)
    \/ \E t \in Conns : CloseEnter(t)
    \/ \E t \in Conns : CloseDone(t)
    \/ \E t \in Conns : CloseConsumer(t)
    \/ \E t \in Conns : CloseDirect(t)
    \/ \E hdr \in HeaderValues, cid \in ParamValues, oid \in ParamValues :
           PostCallback(hdr, cid, oid)
    \/ CallbackInvoke(FALSE)

SpecCb == InitCb /\ [][NextCb]_vars

\* One connection slot and requests to the stream endpoint with every Accept
\* header, with and without a client id header; an accepted connection goes as
\* far as attaching its handler.
InitRoute ==
    /\ arrivals = 1
    /\ asyncTimerChan = TRUE
    /\ Idle
    /\ NoRequests
    /\ factory = "some"

NextRoute ==
    \/ \E c \in Conns, accept \in AcceptHeaders, hdr \in {"", ClientID(1)} : Accept(c, accept, hdr)
    \/ \E accept \in AcceptHeaders : RouteCallback(accept, ClientID(1), Absent, Absent)
    \/ CallbackInvoke(FALSE)
    \/ \E c \in Conns, uh \in BOOLEAN : SetHandler(c, uh)

SpecRoute == InitRoute /\ [][NextRoute]_vars

\* Two connections that reach their loops and write their on_connect message,
\* and callback requests naming one of them whose OnCallback broadcasts again;
\* a connection ends when the write of a broadcast fails.
InitRe ==
    /\ arrivals = 2
    /\ asyncTimerChan = TRUE
    /\ Idle
    /\ NoRequests
    /\ factory = "some"

NextRe ==
    \/ \E c \in Conns : Accept(c, EventStream, "")
    \/ \E c \in Conns, uh \in BOOLEAN : SetHandler(c, uh)
    \/ \E c \in Conns : InitializeReturn(c, TRUE)
    \/ \E c \in Conns : Handshake(c)
    \/ \E c \in Conns : Connect(c, TRUE)
    \/ \E c \in Conns, ret \in BOOLEAN : LoopBroadcast(c, ret)
    \/ \E c \in Conns, wok \in BOOLEAN : (hand[c].kind = "bcast" \/ wok) /\ LoopWrite(c, wok)
    \/ \E c \in Conns : LoopDirect(c, TRUE)
    \/ \E c \in Conns : TickerStop(c)
    \/ \E c \in Conns : Deregister(c)
    \/ \E c \in Conns : Disconnect(c)
    \/ \E c \in Conns : DeferredClose(c)
    \/ \E c \in Conns : Cancel(c)
    \/ \E t \in Conns : CloseEnter(t)
    \/ \E t \in Conns : CloseDone(t)
    \/ \E t \in Conns : CloseConsumer(t)
    \/ \E t \in Conns : CloseDirect(t)
    \/ \E c \in Conns : PostCallback(ClientID(c), Absent, Absent)
    \/ CallbackInvoke(TRUE)

SpecRe == InitRe /\ [][NextRe]_vars

\* Two connections that arrive, are registered and leave by an OnConnect error,
\* while application threads call Find, CloneClientList and Range.
InitReg ==
    /\ arrivals = 2
    /\ asyncTimerChan = TRUE
    /\ Idle
    /\ NoRequests

NextReg ==
    \/ \E c \in Conns : Accept(c, EventStream, "")
    \/ \E c \in Conns : AcceptWaiting(c, EventStream, "")
    \/ \E c \in Conns : Register(c)
    \/ \E c \in Conns, uh \in BOOLEAN : SetHandler(c, uh)
    \/ \E c \in Conns : InitializeReturn(c, TRUE)
    \/ \E c \in Conns : Handshake(c)
    \/ \E c \in Conns, ok \in BOOLEAN : Connect(c, ok)
    \/ \E c \in Conns : Deregister(c)
    \/ \E c \in Conns : Disconnect(c)
    \/ \E c \in Conns : DeferredClose(c)
    \/ \E c \in Conns : Cancel(c)
    \/ \E t \in Conns : CloseEnter(t)
    \/ \E t \in Conns : CloseDone(t)
    \/ \E t \in Conns : CloseConsumer(t)
    \/ \E t \in Conns : CloseDirect(t)
    \/ \E id \in {ClientID(c) : c \in Conns} \cup {"x"} : Find(id)
    \/ CloneClientList
    \/ RangeBegin
    \/ \E s \in Conns, cont \in BOOLEAN : RangeCall(s, cont)
    \/ RangeReturn

SpecReg == InitReg /\ [][NextReg]_vars

\* Connection 1 is in its loop with DirectCap - 1 or DirectCap messages waiting,
\* its client not reading; the application sends to it and closes it.  A second
\* connection arrives and fails in OnInitialize, in OnConnect or in a write.
InitIso ==
    /\ arrivals = 2
    /\ asyncTimerChan = TRUE
    /\ Idle
    /\ nextTick = [c \in Conns |-> IF c = 1 THEN PingInterval ELSE 0]
    /\ req = StreamRequest(EventStream, "")
    /\ \E h \in BOOLEAN, n \in {DirectCap - 1, DirectCap} :
        LET up == [c \in Conns |-> c = 1] IN
        /\ h => factory = "some"
        /\ pc = [c \in Conns |-> IF up[c] THEN "loop" ELSE "absent"]
        /\ clients = {1}
        /\ handler = [c \in Conns |-> up[c] /\ h]
        /\ cons = [c \in Conns |-> IF up[c] THEN "attached" ELSE "none"]
        /\ defers = [c \in Conns |-> IF up[c]
                        THEN DefersAtLoop \o DefersAtHandshake \o DefersAtAccept
                        ELSE <<>>]
        /\ log = [c \in Conns |-> IF up[c] /\ h
                        THEN <<Entry("OnInitialize", NoMsg, TRUE), Entry("InitReturn", NoMsg, TRUE),
                              Entry("OnConnect", NoMsg, TRUE)>>
                        ELSE <<>>]
        /\ dq = [c \in Conns |-> IF up[c] THEN BacklogQueue(c, n) ELSE <<>>]
        /\ sentDirect = dq

NextIso ==
    \/ \E c \in Conns \ {1} : Accept(c, EventStream, "")
    \/ \E c \in Conns \ {1}, uh \in BOOLEAN : SetHandler(c, uh)
    \/ \E c \in Conns \ {1}, ok \in BOOLEAN : InitializeReturn(c, ok)
    \/ \E c \in Conns \ {1} : Handshake(c)
    \/ \E c \in Conns \ {1}, ok \in BOOLEAN : Connect(c, ok)
    \/ \E c \in Conns \ {1}, ret \in BOOLEAN : LoopDirect(c, ret)
    \/ \E c \in Conns \ {1}, wok \in BOOLEAN : LoopWrite(c, wok)
    \/ \E c \in Conns : LoopBroadcastClosed(c)
    \/ \E c \in Conns : TickerStop(c)
    \/ \E c \in Conns : Deregister(c)
    \/ \E c \in Conns : Disconnect(c)
    \/ \E c \in Conns : DeferredClose(c)
    \/ \E c \in Conns : Cancel(c)
    \/ \E t \in Threads : CloseEnter(t)
    \/ \E t \in Threads : CloseDone(t)
    \/ \E t \in Threads : CloseConsumer(t)
    \/ \E t \in Threads : CloseDirect(t)
    \/ AppClose(1)
    \/ DirectMessage(1, TRUE)

SpecIso == InitIso /\ [][NextIso]_vars

\* The goroutine of connection c takes a step: a case of its select, a deferred
\* call, or a step of the Close it is in.
WorkerStep(c) ==
    \/ \E uh \in BOOLEAN : SetHandler(c, uh)
    \/ \E ok \in BOOLEAN : InitializeReturn(c, ok)
    \/ Handshake(c)
    \/ \E ok \in BOOLEAN : Connect(c, ok)
    \/ \E ret \in BOOLEAN : LoopBroadcast(c, ret)
    \/ LoopBroadcastClosed(c)
    \/ \E ret \in BOOLEAN : LoopDirect(c, ret)
    \/ LoopDirectClosed(c)
    \/ LoopPing(c)
    \/ \E wok \in BOOLEAN : LoopWrite(c, wok)
    \/ LoopDone(c)
    \/ TickerStop(c)
    \/ Deregister(c)
    \/ Disconnect(c)
    \/ DeferredClose(c)
    \/ Cancel(c)
    \/ CloseEnter(c)
    \/ CloseDone(c)
    \/ CloseConsumer(c)
    \/ CloseDirect(c)

\* The Go scheduler runs every runnable goroutine, hooks and writes return, and
\* a select with a ready case proceeds.
Fairness == \A c \in Conns : WF_vars(WorkerStep(c))

\* One connection with what ends it: cancellation, failed writes, and Close
\* calls and consumer release that close the broadcast queue.
NextLive ==
    \/ \E c \in Conns : Accept(c, EventStream, "")
    \/ \E c \in Conns : WorkerStep(c)
    \/ CloseEnter(Closer)
    \/ CloseDone(Closer)
    \/ CloseConsumer(Closer)
    \/ CloseDirect(Closer)
    \/ \E s \in Conns : AppClose(s)
    \/ Broadcast(TRUE)
    \/ \E c \in Conns : ConsumerCtxRelease(c)
    \/ \E c \in Conns : ClientCancel(c)
    \/ \E c \in Conns : TickerFire(c)
    \/ Advance(PingInterval)

SpecLive == Init /\ [][NextLive]_vars /\ Fairness

\* The thread that called Close on a session goes on through Close.
CloserStep ==
    \/ CloseEnter(Closer)
    \/ CloseDone(Closer)
    \/ CloseConsumer(Closer)
    \/ CloseDirect(Closer)

\* Connections that end by a failed write or a closed queue, and application
\* threads that broadcast, send direct messages and close sessions; no time
\* passes and no request is cancelled.
NextShut ==
    \/ \E c \in Conns : Accept(c, EventStream, "")
    \/ \E c \in Conns, uh \in BOOLEAN : SetHandler(c, uh)
    \/ \E c \in Conns, ok \in BOOLEAN : InitializeReturn(c, ok)
    \/ \E c \in Conns : Handshake(c)
    \/ \E c \in Conns, ok \in BOOLEAN : Connect(c, ok)
    \/ \E c \in Conns, ret \in BOOLEAN : LoopBroadcast(c, ret)
    \/ \E c \in Conns, wok \in BOOLEAN : LoopWrite(c, wok)
    \/ \E c \in Conns : LoopBroadcastClosed(c)
    \/ \E c \in Conns, ret \in BOOLEAN : LoopDirect(c, ret)
    \/ \E c \in Conns : LoopDirectClosed(c)
    \/ \E c \in Conns : TickerStop(c)
    \/ \E c \in Conns : Deregister(c)
    \/ \E c \in Conns : Disconnect(c)
    \/ \E c \in Conns : DeferredClose(c)
    \/ \E c \in Conns : Cancel(c)
    \/ \E t \in Threads : CloseEnter(t)
    \/ \E t \in Threads : CloseDone(t)
    \/ \E t \in Threads : CloseConsumer(t)
    \/ \E t \in Threads : CloseDirect(t)
    \/ \E s \in Conns : AppClose(s)
    \/ \E s \in Conns, enc \in BOOLEAN : DirectMessage(s, enc)
    \/ Broadcast(TRUE)

\* The scheduler also runs the thread inside Close: its steps do not block.
SpecShut == Init /\ [][NextShut]_vars /\ Fairness /\ WF_vars(CloserStep)

\* Connection 1 is in its loop and ends when a write fails; a second connection
\* is set up; a callback request looks a session up and calls its handler in
\* two steps, with the workers running in between.
NextRace ==
    \/ \E c \in Conns : Accept(c, EventStream, "")
    \/ \E c \in Conns, uh \in BOOLEAN : SetHandler(c, uh)
    \/ \E c \in Conns, ok \in BOOLEAN : InitializeReturn(c, ok)
    \/ \E c \in Conns : Handshake(c)
    \/ \E c \in Conns, ok \in BOOLEAN : Connect(c, ok)
    \/ \E c \in Conns, ret \in BOOLEAN : LoopDirect(c, ret)
    \/ \E c \in Conns, wok \in BOOLEAN : LoopWrite(c, wok)
    \/ \E c \in Conns : TickerStop(c)
    \/ \E c \in Conns : Deregister(c)
    \/ \E c \in Conns : Disconnect(c)
    \/ \E c \in Conns : DeferredClose(c)
    \/ \E c \in Conns : Cancel(c)
    \/ \E t \in Conns : CloseEnter(t)
    \/ \E t \in Conns : CloseDone(t)
    \/ \E t \in Conns : CloseConsumer(t)
    \/ \E t \in Conns : CloseDirect(t)
    \/ \E hdr \in HeaderValues : PostCallback(hdr, Absent, Absent)
    \/ CallbackInvoke(FALSE)

SpecRace == InitCb /\ [][NextRace]_vars

\* ------------------------------------------------------------ Service routes
\* The SSE state, which the service's own operations leave alone.
sse == <<served, readers>>

\* URIs handed to RegisterRoute, as sequences of characters.
Uris == {<<"/">>, <<"/", "a">>, <<"/", "/", "/", "a">>, <<"/", "a", "b">>}
\* Methods a route is registered with, and methods of requests.
RouteMethods == {"GET", "*"}
RequestMethods == {"GET", "POST"}
\* Request paths.
Paths == {<<"/", "a">>, <<"/", "a", "b">>}

RECURSIVE ReplaceAllDoubleSlash(_)
\* strings.ReplaceAll(uri, "//", "/"): the occurrences are taken from the left
\* and do not overlap.
ReplaceAllDoubleSlash(uri) ==
    IF Len(uri) < 2 THEN uri
    ELSE IF uri[1] = "/" /\ uri[2] = "/"
         THEN <<"/">> \o ReplaceAllDoubleSlash(SubSeq(uri, 3, Len(uri)))
         ELSE <<uri[1]>> \o ReplaceAllDoubleSlash(Tail(uri))
RECURSIVE replaceAllDoubleSlashes(_)
\* "for strings.Contains(uri, "//") { uri = strings.ReplaceAll(uri, "//", "/") }"
replaceAllDoubleSlashes(uri) ==
    IF \E i \in 1..(Len(uri) - 1) : uri[i] = "/" /\ uri[i + 1] = "/"
    THEN replaceAllDoubleSlashes(ReplaceAllDoubleSlash(uri))
    ELSE uri

\* The URIs routes are stored under.
StoredUris == {replaceAllDoubleSlashes(u) : u \in Uris}

\* NewServiceHttpRouteInfo(uri, method, fn); n tells the routes apart, in
\* registration order.
NewServiceHttpRouteInfo(uri, method, n) == [URI |-> uri, Method |-> method, n |-> n]

\* "return s.Method == method || s.Method == "*""
MatchMethod(route, method) == route.Method = method \/ route.Method = "*"

RECURSIVE InsertStable(_, _)
\* r put into a sorted slice behind every element that is not less than it; the
\* less function is "len(s.routes[i].URI) > len(s.routes[j].URI)".
InsertStable(rs, r) ==
    IF rs = <<>> THEN <<r>>
    ELSE IF Len(r.URI) > Len(Head(rs).URI) THEN <<r>> \o rs
    ELSE <<Head(rs)>> \o InsertStable(Tail(rs), r)

\* The slice left as it was appended to.
SliceUnsorted(rs) == rs

RECURSIVE SliceStable(_)
\* sort.SliceStable(s.routes, less): longer URIs first, routes with URIs of one
\* length in the order they had.
SliceStable(rs) ==
    IF rs = <<>> THEN <<>>
    ELSE InsertStable(SliceStable(SubSeq(rs, 1, Len(rs) - 1)), rs[Len(rs)])

\* Service.RegisterRoute(uri, method, fn), under s.mu.
RegisterRoute(uri, method) ==
    /\ Len(routes) < MaxRoutes
    /\ routes' = SliceStable(Append(routes,
                     NewServiceHttpRouteInfo(replaceAllDoubleSlashes(uri), method, Len(routes) + 1)))
    /\ UNCHANGED <<sse, resolved, done, mainPc, crashed, preq, params>>

\* serviceHttpRouteInfo.MatchURL(r): what glob.MatchNamed(s.URI, r.URL.Path)
\* answers; globs is the set of stored URIs that match the request's path as
\* patterns.
MatchURL(route, globs) == route.URI \in globs

\* The first of the given positions of the slice, the one a loop over the
\* slice reaches first, or 0 when there is none.
FirstRoute(at) == IF at = {} THEN 0 ELSE CHOOSE i \in at : \A j \in at : i <= j

\* What ResolveRoute returns: the first route with a matching method whose URI
\* is the path, else the first one with a matching method whose pattern matches.
ResolveResult(method, path, globs) ==
    LET e == FirstRoute({i \in 1..Len(routes) :
                            MatchMethod(routes[i], method) /\ path = routes[i].URI})
        g == FirstRoute({i \in 1..Len(routes) :
                            MatchMethod(routes[i], method) /\ MatchURL(routes[i], globs)})
    IN IF e # 0 THEN [found |-> TRUE, route |-> routes[e].n]
       ELSE IF g # 0 THEN [found |-> TRUE, route |-> routes[g].n]
       ELSE [found |-> FALSE, route |-> 0]

\* Service.ResolveRoute(r), under s.mu.RLock.
ResolveRoute(method, path, globs) ==
    /\ resolved' = [method |-> method, path |-> path, globs |-> globs,
                    found |-> ResolveResult(method, path, globs).found,
                    route |-> ResolveResult(method, path, globs).route]
    /\ UNCHANGED <<sse, routes, done, mainPc, crashed, preq, params>>

InitRoutes ==
    /\ arrivals = 0
    /\ asyncTimerChan = TRUE
    /\ Idle
    /\ NoRequests
    /\ factory = "nil"

\* Routes are registered and requests resolved in any order.
NextRoutes ==
    \/ \E uri \in Uris, method \in RouteMethods : RegisterRoute(uri, method)
    \/ \E method \in RequestMethods, path \in Paths, globs \in SUBSET StoredUris :
           ResolveRoute(method, path, globs)

SpecRoutes == InitRoutes /\ [][NextRoutes]_vars

\* ------------------------------------------------------------ Service.Close
\* "close(s.done)": closing a closed channel panics.
ServiceCloseResult == [done |-> TRUE, panic |-> done]

\* The example programs' init(): routes are registered before main runs.
MainInit(uri, method) ==
    /\ mainPc = "init"
    /\ RegisterRoute(uri, method)

\* main: "srv.Start(); defer srv.Close()", then main waits for a signal.
MainStart ==
    /\ mainPc = "init"
    /\ mainPc' = "serving"
    /\ UNCHANGED <<sse, routes, resolved, done, crashed, preq, params>>

\* "<-signals": SIGINT or SIGTERM arrives.
MainSignal ==
    /\ mainPc = "serving"
    /\ mainPc' = "signalled"
    /\ UNCHANGED <<sse, routes, resolved, done, crashed, preq, params>>

\* The explicit "srv.Close()" that ends main.
MainClose ==
    /\ mainPc = "signalled"
    /\ done' = ServiceCloseResult.done
    /\ crashed' = (crashed \/ ServiceCloseResult.panic)
    /\ mainPc' = IF ServiceCloseResult.panic THEN "panic" ELSE "deferred"
    /\ UNCHANGED <<sse, routes, resolved, preq, params>>

\* main returns: the deferred "srv.Close()" runs.
MainDeferredClose ==
    /\ mainPc = "deferred"
    /\ done' = ServiceCloseResult.done
    /\ crashed' = (crashed \/ ServiceCloseResult.panic)
    /\ mainPc' = IF ServiceCloseResult.panic THEN "panic" ELSE "returned"
    /\ UNCHANGED <<sse, routes, resolved, preq, params>>

NextMain ==
    \/ \E uri \in Uris, method \in RouteMethods : MainInit(uri, method)
    \/ MainStart
    \/ MainSignal
    \/ MainClose
    \/ MainDeferredClose

SpecMain == InitRoutes /\ [][NextMain]_vars

\* ------------------------------------------------------------ Service.parameters
\* Parameter names; Go maps are functions on the names they hold.
Names == {"client_id", "a"}
\* The maps with some of the names as keys and values in V.
Maps(V) == UNION {[S -> V] : S \in SUBSET Names}
\* A Content-Type header: the media type, then its parameters; <<>> for none.
ContentTypes == {<<>>, <<"application/json">>, <<"application/json", "; charset=utf-8">>,
                 <<"application/x-www-form-urlencoded">>,
                 <<"multipart/form-data", "; boundary=x">>, <<"text/plain">>}
\* strings.HasPrefix(contentType, t), for a media type t
HasPrefix(ct, t) == ct # <<>> /\ ct[1] = t
\* The methods for which ParseForm reads the request body.
BodyMethods == {"POST", "PUT", "PATCH"}
\* The requests: the parsed query string (a list of values per name), the named
\* parameters of the matched route, and the body's fields; readable says whether
\* reading the body to its end succeeds, valid whether what was read can be
\* decoded, and qerr whether the query string holds, besides the pairs parsed,
\* one that url.ParseQuery rejects (r.URL.Query() drops it silently).
ParamRequests ==
    [method : {"GET", "POST"}, ct : ContentTypes,
     query : Maps({<<"q">>, <<"q", "r">>}), uri : Maps({"", "u"}), body : Maps({"", "b"}),
     valid : BOOLEAN, readable : BOOLEAN, qerr : BOOLEAN]

\* The entries of base, replaced or extended by those of over:
\* "for k, v := range over { params[k] = v }".
Clobber(base, over) ==
    [k \in DOMAIN base \cup DOMAIN over |-> IF k \in DOMAIN over THEN over[k] ELSE base[k]]

\* "for k, v := range r.URL.Query() { if len(v) > 0 { params[k] = v[0] } }"
FromQuery(rq) ==
    [k \in {n \in DOMAIN rq.query : Len(rq.query[n]) > 0} |-> rq.query[k][1]]
\* "for k, v := range params_uri { if len(v) > 0 { params[k] = v } }"
FromURI(rq) == [k \in {n \in DOMAIN rq.uri : rq.uri[n] # ""} |-> rq.uri[k]]

\* r.ParseForm() fails: the urlencoded body it has to read cannot be read or
\* parsed, or the query string holds a malformed pair.
ParseFormFails(rq) ==
    \/ /\ rq.method \in BodyMethods
       /\ HasPrefix(rq.ct, "application/x-www-form-urlencoded")
       /\ (~rq.readable \/ ~rq.valid)
    \/ rq.qerr
\* r.Form after r.ParseForm(): for every name the values of the urlencoded
\* body (read for POST, PUT and PATCH only; a multipart body is not read),
\* followed by the values of the query string.
ParseForm(rq) ==
    LET post == IF rq.method \in BodyMethods /\ HasPrefix(rq.ct, "application/x-www-form-urlencoded")
                THEN [k \in DOMAIN rq.body |-> <<rq.body[k]>>]
                ELSE <<>>
    IN [k \in DOMAIN post \cup DOMAIN rq.query |->
            (IF k \in DOMAIN post THEN post[k] ELSE <<>>)
            \o (IF k \in DOMAIN rq.query THEN rq.query[k] ELSE <<>>)]
\* "for k, v := range r.Form { if len(v) > 0 { params[k] = v[0] } }"
FromForm(rq) ==
    [k \in {n \in DOMAIN ParseForm(rq) : Len(ParseForm(rq)[n]) > 0} |-> ParseForm(rq)[k][1]]

\* Service.parameters(r, params_uri): the unified parameters, or the error.
\* Query values first, clobbered by the named parameters of the route, clobbered
\* by the decoded JSON object (kept out when it does not decode) or by r.Form.
\* A JSON body that io.ReadAll cannot read to its end is an error, as is a
\* failing r.ParseForm().
parameters(rq) ==
    LET early == Clobber(FromQuery(rq), FromURI(rq))
    IN IF HasPrefix(rq.ct, "application/json")
       THEN IF ~rq.readable THEN [called |-> TRUE, err |-> TRUE, m |-> <<>>]
            ELSE [called |-> TRUE, err |-> FALSE,
                  m |-> IF rq.valid THEN Clobber(early, rq.body) ELSE early]
       ELSE IF \/ HasPrefix(rq.ct, "application/x-www-form-urlencoded")
               \/ HasPrefix(rq.ct, "multipart/form-data")
       THEN IF ParseFormFails(rq) THEN [called |-> TRUE, err |-> TRUE, m |-> <<>>]
            ELSE [called |-> TRUE, err |-> FALSE, m |-> Clobber(early, FromForm(rq))]
       ELSE [called |-> TRUE, err |-> FALSE, m |-> early]

\* HttpParameterT[string](r, name) on the unified parameters.
HttpParameterT(name) ==
    IF name \in DOMAIN params.m THEN Param(params.m[name]) ELSE Absent

\* ServeHTTP: "parametersCtx, parametersErr := s.parameters(r, params_uri)".
ServeParameters ==
    /\ ~params.called
    /\ params' = parameters(preq)
    /\ UNCHANGED <<sse, routes, resolved, done, mainPc, crashed, preq>>

\* One request with any content type, query string, route parameters and body.
InitParams ==
    /\ arrivals = 0
    /\ asyncTimerChan = TRUE
    /\ SseIdle
    /\ NoRequests
    /\ factory = "nil"
    /\ ServiceBuilt
    /\ preq \in ParamRequests

NextParams == ServeParameters

SpecParams == InitParams /\ [][NextParams]_vars

\* ------------------------------------------------------------- log queries
Has(c, ev) == \E i \in 1..Len(log[c]) : log[c][i].ev = ev
Count(c, ev) == Cardinality({i \in 1..Len(log[c]) : log[c][i].ev = ev})
\* OnInitialize returned an error on connection c.
InitFailed(c) == \E i \in 1..Len(log[c]) : log[c][i].ev = "InitReturn" /\ ~log[c][i].ret
\* Close is not running in any thread for session s.
NoCloseRunning(s) == \A t \in Threads : Target(t) = s => cpos[t] \in {"none", "call"}
Prefix(a, b) == Len(a) <= Len(b) /\ \A i \in 1..Len(a) : a[i] = b[i]
RECURSIVE Ids(_, _, _)
\* The ids of the broadcast messages in the entries of kind evs of a log, in order.
Ids(l, evs, rets) ==
    IF l = <<>> THEN <<>>
    ELSE IF Head(l).ev \in evs /\ Head(l).m.kind = "bcast" /\ Head(l).ret \in rets
         THEN <<Head(l).m.id>> \o Ids(Tail(l), evs, rets)
         ELSE Ids(Tail(l), evs, rets)
Observed(c) == Ids(log[c], {"OnMessage"}, BOOLEAN)
Accepted(c) == Ids(log[c], {"OnMessage"}, {TRUE})
Written(c) == Ids(log[c], {"Write"}, {TRUE})
Queued(c) == [i \in 1..Len(bq[c]) |-> bq[c][i].id]

\* The entry is a successful write of a broadcast or direct message.
RealWrite(e) == e.ev = "Write" /\ e.m.kind \in {"bcast", "direct", "on_connect"}
\* The entry is a successful write of a ping.
PingWrite(e) == e.ev = "Write" /\ e.m.kind = "ping"

\* ------------------------------------------------------------------ claims

\* C1: Close is idempotent. For any number of Close calls on a session, one after
\* another or from several threads at once, exactly one call makes the closed
\* false->true transition, and the done signal, the broadcast consumer and the
\* direct queue are each released at most once, exactly once when every call has
\* returned; nothing panics.
C1_CloseOnce ==
    \A s \in Conns :
        /\ released[s].wins = (IF closed[s] THEN 1 ELSE 0)
        /\ released[s].done <= 1
        /\ released[s].consumer <= 1
        /\ released[s].direct <= 1
        /\ ~panicked
        /\ (closed[s] /\ NoCloseRunning(s)) =>
               (released[s].done = 1 /\ released[s].consumer = 1 /\ released[s].direct = 1)
        /\ ~closed[s] => (released[s].done = 0 /\ released[s].consumer = 0
                          /\ released[s].direct = 0)

\* The worker's deferred Close and MaxCloseCalls application calls have all returned.
C1_Witness ==
    /\ pc[1] = "returned"
    /\ nClose = MaxCloseCalls
    /\ cpos[Closer] = "none"
    /\ released[1] = [wins |-> 1, done |-> 1, consumer |-> 1, direct |-> 1]

C3_DisconnectOnce ==
    \A c \in Conns :
        /\ Count(c, "OnDisconnect") <= 1
        /\ (pc[c] = "returned" /\ handler[c] /\ ~InitFailed(c)) => Count(c, "OnDisconnect") = 1
        /\ Has(c, "OnDisconnect") => (handler[c] /\ ~InitFailed(c))

\* The worker returned after a failed write, with OnDisconnect called.
C3_Witness ==
    /\ pc[1] = "returned"
    /\ Has(1, "WriteFailed")
    /\ Count(1, "OnDisconnect") = 1

\* C4: when OnDisconnect starts, the session's client id is no longer in the
\* registry.
C4_AbsentAtDisconnect ==
    \A c \in Conns : (pc[c] = "disconnect" /\ handler[c]) => c \notin clients

\* OnDisconnect is about to run for a handler-backed session.
C4_Witness == pc[1] = "disconnect" /\ handler[1]

\* C5: when OnDisconnect starts the session is already closed: closed flag set,
\* broadcast consumer released, direct queue closed.
C5_ClosedAtDisconnect ==
    \A c \in Conns :
        (pc[c] = "disconnect" /\ handler[c]) =>
            (closed[c] /\ released[c].consumer > 0 /\ released[c].direct > 0)

\* C6: once the worker of a connection whose OnInitialize failed has returned,
\* the registry holds no entry for it.
C6_InitFailedUnregistered ==
    \A c \in Conns : (pc[c] = "returned" /\ InitFailed(c)) => c \notin clients

\* C7: after an OnInitialize error the on_connect message is never queued or
\* written, OnConnect, OnMessage and OnDisconnect are never invoked, and the
\* session is closed when the worker has returned.
C7_InitFailedAborts ==
    \A c \in Conns :
        InitFailed(c) =>
            /\ pc[c] \in {"unwinding", "closing", "returned"}
            /\ \A i \in 1..Len(dq[c]) : dq[c][i].kind # "on_connect"
            /\ \A i \in 1..Len(log[c]) :
                   log[c][i].ev \notin {"OnConnect", "OnMessage", "OnDisconnect",
                                         "Write", "WriteFailed"}
            /\ pc[c] = "returned" => closed[c]

\* The worker returned after OnInitialize failed.
C7_Witness == pc[1] = "returned" /\ InitFailed(1) /\ closed[1]

\* C8: after the cancellation signal of a connection has fired while its worker
\* waits in the loop, no OnMessage call and no frame write happens on that
\* connection.
C8_NothingAfterCancel ==
    \A c \in Conns :
        \A i, j \in 1..Len(log[c]) :
            (i < j /\ log[c][i].ev = "cancelled" /\ log[c][i].ret) =>
                log[c][j].ev \notin {"OnMessage", "Write"}

\* C9: a DirectMessage call on a session whose closed flag is set returns the
\* session-closed error and leaves the direct queue as it was, full or not.
C9_ClosedRejects ==
    [][\A s \in Conns :
          (nDirect' = nDirect + 1 /\ lastErr'.s = s /\ closed[s]) =>
              (lastErr'.err = ErrClosed /\ dq' = dq)]_vars

\* A call was rejected as closed on a session whose queue is full.
C9_Witness == lastErr.err = ErrClosed /\ closed[1] /\ Len(dq[1]) = DirectCap

\* C10: DirectMessage on an open session holding DirectCap messages returns the
\* queue-full error, and queue, worker position, registry and closed flag are
\* unchanged; with fewer than DirectCap queued it returns nil and the queue grows
\* by exactly that message at its end.
C10_FullRejects ==
    [][\A s \in Conns :
          (nDirect' = nDirect + 1 /\ lastErr'.s = s /\ ~closed[s]) =>
              IF Len(dq[s]) >= DirectCap
              THEN /\ lastErr'.err = ErrFull
                   /\ dq' = dq
                   /\ pc' = pc /\ clients' = clients /\ closed' = closed /\ cons' = cons
              ELSE /\ lastErr'.err = ErrNone
                   /\ Len(dq'[s]) = Len(dq[s]) + 1
                   /\ SubSeq(dq'[s], 1, Len(dq[s])) = dq[s]
                   /\ dq'[s][Len(dq'[s])].kind = "direct"
                   /\ dq'[s][Len(dq'[s])].id = nDirect']_vars

\* A call was rejected as full; the session is open, in its loop and registered.
C10_Witness ==
    /\ lastErr.err = ErrFull
    /\ Len(dq[1]) = DirectCap
    /\ pc[1] = "loop" /\ 1 \in clients /\ ~closed[1]

\* C11: when OnMessage returns false for a message on connection c, nothing is
\* written for that message (the worker goes back to the select with nothing in
\* its hand to write), c stays in the loop with the message consumed, and
\* the queues, logs, positions and consumers of all other connections are as
\* before, so the same broadcast is still delivered to them.
C11_FilterIsLocal ==
    [][\A c \in Conns :
          \A i \in (Len(log[c]) + 1)..Len(log'[c]) :
              (log'[c][i].ev = "OnMessage" /\ ~log'[c][i].ret) =>
                  /\ i = Len(log'[c])
                  /\ pc[c] = "loop" /\ pc'[c] = "loop"
                  /\ hand'[c] = NoMsg
                  /\ \A d \in Conns \ {c} :
                         /\ bq'[d] = bq[d] /\ dq'[d] = dq[d] /\ log'[d] = log[d]
                         /\ pc'[d] = pc[d] /\ cons'[d] = cons[d]
                  /\ clients' = clients]_vars

\* Connection 2 refused broadcast 1 and then wrote broadcast 2, while connection 1
\* wrote broadcast 1.
C11_Witness ==
    /\ handler[1] /\ handler[2]
    /\ \E i \in 1..Len(log[2]) :
           log[2][i].ev = "OnMessage" /\ log[2][i].m.kind = "bcast"
           /\ log[2][i].m.id = 1 /\ ~log[2][i].ret
    /\ Written(2) = <<2>>
    /\ 1 \in {Written(1)[i] : i \in 1..Len(Written(1))}
    /\ pc[2] = "loop"

\* C12: no ping frame is written on a connection with a handler unless OnMessage
\* was called with that ping just before and returned true.
C12_PingFiltered ==
    \A c \in Conns :
        \A i \in 1..Len(log[c]) :
            (handler[c] /\ log[c][i].ev = "Write" /\ log[c][i].m.kind = "ping") =>
                /\ i > 1
                /\ log[c][i - 1].ev = "OnMessage"
                /\ log[c][i - 1].m.kind = "ping"
                /\ log[c][i - 1].ret

\* C13: keepalive is an idle probe.  A ping is written no sooner than PingInterval
\* after the latest broadcast or direct write on the connection, and the pings
\* written since that write are at most one per PingInterval elapsed since it.
C13_PingAfterIdleWindow ==
    \A c \in Conns :
        \A i \in 1..Len(log[c]) :
            RealWrite(log[c][i]) =>
                /\ \A j \in (i + 1)..Len(log[c]) :
                       PingWrite(log[c][j]) => log[c][j].at >= log[c][i].at + PingInterval
                /\ (\A j \in (i + 1)..Len(log[c]) : ~RealWrite(log[c][j])) =>
                       Cardinality({j \in (i + 1)..Len(log[c]) : PingWrite(log[c][j])})
                           * PingInterval <= now - log[c][i].at

\* A callback request is taken up in this step: its identity is resolved and
\* looked up, and it is answered when the lookup fails.
CallbackHandled == nCb' = nCb + 1
\* The callback request that found a session reads its handler in this step
\* and calls OnCallback when there is one.
CallbackInvoked == looked # 0 /\ looked' = 0
\* The ids in the registry.
RegisteredIds == {ClientID(c) : c \in clients}
\* Nothing of the sessions, the registry or the workers changes in this step.
SessionsUntouched ==
    /\ clients' = clients /\ pc' = pc /\ handler' = handler /\ closed' = closed
    /\ cons' = cons /\ bq' = bq /\ dq' = dq /\ log' = log /\ defers' = defers
    /\ released' = released /\ cancelled' = cancelled /\ nPub' = nPub

\* C14: the identity of a callback request is the X-Client-ID header when that is
\* non-empty, else the client_id parameter when present and non-empty, else the
\* observer_id parameter when present and non-empty, else empty.
C14_ResolutionOrder ==
    nCb > 0 =>
        LET some(p) == p.ok /\ p.v # "" IN
        /\ cb.hdr # "" => cb.id = cb.hdr
        /\ (cb.hdr = "" /\ some(cb.cid)) => cb.id = cb.cid.v
        /\ (cb.hdr = "" /\ ~some(cb.cid) /\ some(cb.oid)) => cb.id = cb.oid.v
        /\ (cb.hdr = "" /\ ~some(cb.cid) /\ ~some(cb.oid)) => cb.id = ""

\* A request carrying three different non-empty identities went to the session
\* named by the header.
C14_Witness ==
    /\ nCb > 0
    /\ cb.hdr = ClientID(2) /\ cb.cid = Param(ClientID(1)) /\ cb.oid = Param("x")
    /\ cb.id = ClientID(2)
    /\ cb.to = 2

\* C15: a callback request without a non-empty identity gets the missing-client-id
\* error, one whose identity is not in the registry gets the client-not-found
\* error, and in both cases no OnCallback is invoked and registry, queues and
\* connection states stay as they were.
C15_CallbackRejected ==
    [][CallbackHandled =>
          LET some(p) == p.ok /\ p.v # ""
              anonymous == cb'.hdr = "" /\ ~some(cb'.cid) /\ ~some(cb'.oid)
          IN /\ anonymous => cb'.err = ErrMissing
             /\ (~anonymous /\ cb'.id \notin RegisteredIds) => cb'.err = ErrNotFound
             /\ (anonymous \/ cb'.id \notin RegisteredIds) =>
                    (cb'.to = 0 /\ looked' = 0 /\ SessionsUntouched)]_vars

\* A callback for the id of a connection that has gone was rejected while another
\* connection is registered.
C15_Witness ==
    /\ cb.err = ErrNotFound
    /\ cb.id = ClientID(2)
    /\ pc[2] = "returned" /\ 2 \notin clients
    /\ 1 \in clients

\* C16: a callback request whose identity is the id of registered session s
\* finds s, without error and without changing anything; the request that found
\* s then calls OnCallback of s's handler once and of no other handler; when s
\* has no handler nothing is called, no error is reported and nothing changes;
\* and OnCallback is called by no other step.
C16_CallbackDispatch ==
    [][/\ CallbackHandled =>
             \A s \in clients :
                 cb'.id = ClientID(s) =>
                     cb'.err = ErrNone /\ looked' = s /\ SessionsUntouched
       /\ CallbackInvoked =>
             /\ cb.id = ClientID(looked)
             /\ cb'.err = ErrNone
             /\ IF handler[looked]
                THEN /\ cb'.to = looked
                     /\ Len(log'[looked]) = Len(log[looked]) + 1
                     /\ log'[looked][Len(log'[looked])].ev = "OnCallback"
                     /\ \A d \in Conns \ {looked} : log'[d] = log[d]
                ELSE cb'.to = 0 /\ SessionsUntouched
       /\ ~CallbackInvoked =>
             \A c \in Conns :
                 Count(c, "OnCallback")' = Count(c, "OnCallback")]_vars

\* Both sessions have handlers and the callback for session 1 reached only it.
C16_Witness ==
    /\ cb.to = 1 /\ cb.id = ClientID(1)
    /\ {1, 2} \subseteq clients /\ handler[1] /\ handler[2]
    /\ Count(1, "OnCallback") = 1 /\ Count(2, "OnCallback") = 0

\* Some element of the comma-separated Accept list is text/event-stream, blanks
\* around it and parameters after a semicolon aside.
HasEventStream(a) ==
    \E i \in 1..Len(a) :
        /\ a[i] = "text/event-stream"
        /\ \E l \in 0..(i - 1) :
               (l = 0 \/ a[l] = ",") /\ \A k \in (l + 1)..(i - 1) : a[k] = " "
        /\ \E r \in (i + 1)..(Len(a) + 1) :
               (r = Len(a) + 1 \/ a[r] \in {",", ";"}) /\ \A k \in (i + 1)..(r - 1) : a[k] = " "

\* C17: a request to the stream endpoint without text/event-stream in its Accept
\* header and with a non-empty X-Client-ID is handled as a callback and creates no
\* consumer, session or registry entry, neither when it looks the session up nor
\* when it calls the handler; every other request starts a stream.
C17_Discriminator ==
    [][/\ (CallbackHandled \/ \E c \in Conns : pc[c] = "absent" /\ pc'[c] # "absent") =>
             IF ~HasEventStream(req'.accept) /\ req'.hdr # ""
             THEN /\ CallbackHandled
                  /\ req'.kind = "callback"
                  /\ clients' = clients /\ cons' = cons /\ pc' = pc
                  /\ dq' = dq /\ defers' = defers
             ELSE /\ nCb' = nCb
                  /\ req'.kind = "stream"
                  /\ \E c \in Conns :
                         /\ pc[c] = "absent" /\ pc'[c] = "accepted"
                         /\ clients' = clients \cup {c}
                         /\ cons'[c] = "attached"
       /\ CallbackInvoked =>
             /\ clients' = clients /\ cons' = cons /\ pc' = pc
             /\ dq' = dq /\ defers' = defers]_vars

\* A request naming text/event-stream only as a parameter, with a client id, was
\* handled as a callback and no session exists.
C17_Witness ==
    /\ req = CallbackRequest(<<"text/html", ";", "text/event-stream">>, ClientID(1))
    /\ nCb = 1
    /\ clients = {} /\ pc[1] = "absent" /\ cons[1] = "none"

\* C18: once the worker of connection b has returned, b is not in the registry,
\* nothing more is queued for or written to b, and every broadcast published
\* from then on is still queued for each connection whose consumer is attached.
C18_GoneAfterDisconnect ==
    [][\A b \in Conns :
          pc[b] = "returned" =>
              /\ b \notin clients
              /\ log'[b] = log[b]
              /\ bq'[b] = bq[b]
              /\ nPub' = nPub + 1 =>
                     \A a \in Conns \ {b} :
                         cons[a] = "attached" =>
                             /\ Len(bq'[a]) = Len(bq[a]) + 1
                             /\ bq'[a][Len(bq'[a])].id = nPub']_vars

C20_TeardownCompletes ==
    \A c \in Conns :
        ((InLoop(c) /\ (cancelled[c] \/ cons[c] = "released")) \/ Has(c, "WriteFailed"))
            ~> (pc[c] = "returned" /\ c \notin clients /\ closed[c])

\* The worker returned, deregistered and closed, after leaving the loop by the
\* cancellation signal.
C20_Witness ==
    /\ Has(1, "ExitDone")
    /\ pc[1] = "returned" /\ 1 \notin clients /\ closed[1]


\* C21: a failed write is fatal to its connection and is not retried.  After the
\* first WriteFailed entry of a connection its log has no OnMessage call and no
\* write, successful or not; the worker has left the loop for its deferred
\* calls, and once it has returned the registry entry is removed, the session
\* is closed and a handler's OnDisconnect has run.
C21_WriteFailureFatal ==
    \A c \in Conns :
        \A i \in 1..Len(log[c]) :
            log[c][i].ev = "WriteFailed" =>
                /\ \A j \in (i + 1)..Len(log[c]) :
                       log[c][j].ev \notin {"OnMessage", "Write", "WriteFailed", "WriteError"}
                /\ pc[c] \in {"unwinding", "disconnect", "closing", "returned"}
                /\ pc[c] = "returned" =>
                       /\ c \notin clients
                       /\ closed[c]
                       /\ handler[c] => Count(c, "OnDisconnect") = 1

\* The write of the on_connect message failed with a broadcast still queued; the
\* worker returned and the broadcast was never looked at.
C21_Witness ==
    /\ pc[1] = "returned"
    /\ \E i \in 1..Len(log[1]) : log[1][i].ev = "WriteFailed" /\ log[1][i].m.kind = "on_connect"
    /\ bq[1] # <<>>
    /\ 1 \notin clients /\ closed[1]


RECURSIVE Directs(_, _)
\* The messages of the direct queue in the entries of kind evs of a log, in order.
Directs(l, evs) ==
    IF l = <<>> THEN <<>>
    ELSE IF Head(l).ev \in evs /\ Head(l).m.kind \in {"direct", "on_connect"}
         THEN <<Head(l).m>> \o Directs(Tail(l), evs)
         ELSE Directs(Tail(l), evs)
\* The message of one of the kinds that the worker of c received and is
\* encoding and writing, if any.
InHand(c, kinds) == IF hand[c].kind \in kinds THEN <<hand[c]>> ELSE <<>>
\* The direct messages the loop of c has received: each is passed to OnMessage
\* when there is a handler, and to Encode and Write otherwise, where the latest
\* may still be being written.
TakenDirect(c) ==
    IF handler[c]
    THEN Directs(log[c], {"OnMessage"})
    ELSE Directs(log[c], {"Write", "WriteFailed", "WriteError"})
             \o InHand(c, {"direct", "on_connect"})
WrittenDirect(c) == Directs(log[c], {"Write"})
RECURSIVE IsSubsequence(_, _)
\* a is b with some elements left out.
IsSubsequence(a, b) ==
    IF a = <<>> THEN TRUE
    ELSE IF b = <<>> THEN FALSE
    ELSE IF Head(a) = Head(b) THEN IsSubsequence(Tail(a), Tail(b))
    ELSE IsSubsequence(a, Tail(b))

\* C22: within one connection the direct messages received by the loop, followed
\* by those still queued, are exactly the messages whose DirectMessage call
\* returned nil, in the order of those calls, whatever broadcasts and pings come
\* in between; the direct messages written are some of them in that same order,
\* none twice.
C22_DirectFifo ==
    \A c \in Conns :
        /\ TakenDirect(c) \o dq[c] = sentDirect[c]
        /\ IsSubsequence(WrittenDirect(c), sentDirect[c])
        /\ \A i, j \in 1..Len(WrittenDirect(c)) :
               WrittenDirect(c)[i] = WrittenDirect(c)[j] => i = j

\* The on_connect message and two application messages were written in the
\* order they were sent.
C22_Witness ==
    /\ sentDirect[1] = <<OnConnectMsg(1), Msg("direct", 1, TRUE), Msg("direct", 2, TRUE)>>
    /\ WrittenDirect(1) = sentDirect[1]
    /\ dq[1] = <<>>


\* The entry records an error of the connection it belongs to.
ErrorEntry(e) ==
    \/ e.ev = "InitReturn" /\ ~e.ret
    \/ e.ev = "OnConnect" /\ ~e.ret
    \/ e.ev \in {"WriteFailed", "WriteError"}
\* Connection c has had an OnInitialize error, an OnConnect error or a failed write.
Failed(c) == \E i \in 1..Len(log[c]) : ErrorEntry(log[c][i])
\* This step is an error on connection c, or a step its worker takes after one:
\* the hook or write that fails, a DirectMessage call on c's session that
\* returns queue-full or session-closed, and every deferred call and step of
\* Close the worker of c runs after a failure.
ErrorStep(c) ==
    \/ \E i \in (Len(log[c]) + 1)..Len(log'[c]) : ErrorEntry(log'[c][i])
    \/ nDirect' = nDirect + 1 /\ lastErr'.s = c /\ lastErr'.err \in {ErrFull, ErrClosed}
    \/ Failed(c) /\ (pc'[c] # pc[c] \/ cpos'[c] # cpos[c])

\* C24: errors are local.  A step in which connection c meets an OnInitialize
\* error, an OnConnect error, a write failure, a queue-full or a session-closed
\* error, and every step of c's teardown after such an error, leaves every other
\* session's registry entry, closed flag, direct queue, position and log of hook
\* calls and written frames as they were.
C24_ErrorIsolation ==
    [][\A c \in Conns :
          ErrorStep(c) =>
              \A d \in Conns \ {c} :
                  /\ (d \in clients') = (d \in clients)
                  /\ closed'[d] = closed[d]
                  /\ dq'[d] = dq[d]
                  /\ log'[d] = log[d]
                  /\ pc'[d] = pc[d]]_vars

\* Connection 2 failed in a write and its worker has returned, and a
\* DirectMessage on session 1 returned queue-full; session 1 is registered,
\* open and in its loop with its queue intact.
C24_Witness ==
    /\ pc[2] = "returned" /\ Has(2, "WriteFailed") /\ 2 \notin clients
    /\ lastErr = [s |-> 1, err |-> ErrFull]
    /\ 1 \in clients /\ ~closed[1] /\ pc[1] = "loop"
    /\ Len(dq[1]) = DirectCap /\ dq[1][1] = OnConnectMsg(1)


\* C25: CloneClientList returns the registry as it is at the instant of the call
\* and the map is a copy: registrations and removals after the call leave the
\* returned map as it was.  Find, CloneClientList and Range leave the registry
\* as it is.
C25_SnapshotIndependent ==
    [][/\ snapshot'.n # snapshot.n => (SnapshotValue' = clients /\ clients' = clients)
       /\ snapshot'.n = snapshot.n => SnapshotValue' = SnapshotValue
       /\ (nRead' # nRead \/ rng' # rng \/ found' # found) => clients' = clients]_vars

\* The map returned while only session 1 was registered still holds exactly
\* session 1 after session 2 was registered and session 1 removed.
C25_Witness ==
    /\ snapshot.n > 0
    /\ SnapshotValue = {1}
    /\ clients = {2}

\* C26: Range calls fn at most once per session and only with registered
\* sessions; when fn always returns true every registered session has been
\* visited by the time Range returns; after fn has returned false no further
\* call is made; and while a Range call is in progress the registry does not
\* change.
C26_RangeVisits ==
    /\ [](/\ \A i, j \in 1..Len(rng.visited) : rng.visited[i] = rng.visited[j] => i = j
          /\ Visited \subseteq rng.at
          /\ (rng.n > 0 /\ ~rng.active /\ ~rng.stopped) => Visited = rng.at
          /\ rng.active => clients = rng.at)
    /\ [][/\ rng.active => clients' = clients
          /\ (rng.stopped /\ rng'.n = rng.n) => rng'.visited = rng.visited]_vars

\* A Range call over two registered sessions has returned after fn was called
\* with both; the registry is as it was when the call started.
C26_Witness ==
    /\ rng.n > 0 /\ ~rng.active /\ ~rng.stopped
    /\ Len(rng.visited) = 2 /\ Visited = {1, 2}
    /\ rng.at = {1, 2}


\* The on_connect message of c was queued by the handshake.
OnConnectQueued(c) == \E i \in 1..Len(sentDirect[c]) : sentDirect[c][i] = OnConnectMsg(c)

\* C27: per connection the hooks run in lifecycle order.  The session is in the
\* registry while OnInitialize runs; OnConnect is called only after OnInitialize
\* returned nil and with the on_connect message queued; every OnMessage call
\* comes after an OnConnect that returned nil; and after OnDisconnect no hook is
\* called and nothing is written for that connection.
C27_LifecycleOrder ==
    \A c \in Conns :
        /\ pc[c] = "initializing" => c \in clients
        /\ \A i \in 1..Len(log[c]) :
               /\ log[c][i].ev = "OnConnect" =>
                      /\ \E k \in 1..(i - 1) : log[c][k].ev = "InitReturn" /\ log[c][k].ret
                      /\ OnConnectQueued(c)
               /\ log[c][i].ev = "OnMessage" =>
                      \E k \in 1..(i - 1) : log[c][k].ev = "OnConnect" /\ log[c][k].ret
               /\ log[c][i].ev = "OnDisconnect" =>
                      /\ \A j \in (i + 1)..Len(log[c]) :
                             log[c][j].ev \notin {"OnInitialize", "InitReturn", "OnConnect",
                                                   "OnMessage", "OnCallback", "OnDisconnect",
                                                   "Write", "WriteFailed", "WriteError"}
                      /\ \E k \in 1..(i - 1) : log[c][k].ev = "InitReturn" /\ log[c][k].ret


\* OnConnect returned an error on connection c.
ConnectFailed(c) == \E i \in 1..Len(log[c]) : log[c][i].ev = "OnConnect" /\ ~log[c][i].ret

\* C28: after an OnConnect error the connection never enters the loop: the worker
\* goes straight to its deferred calls with no ticker created, nothing is passed
\* to OnMessage and no frame is written, not even the queued on_connect (the
\* only output is the error response of WriteError); once the worker has
\* returned the registry entry is removed and the session closed.
C28_ConnectFailedAborts ==
    \A c \in Conns :
        ConnectFailed(c) =>
            /\ pc[c] \in {"unwinding", "disconnect", "closing", "returned"}
            /\ \A i \in 1..Len(defers[c]) : defers[c][i] # "tickerStop"
            /\ \A i \in 1..Len(log[c]) :
                   /\ log[c][i].ev \notin {"OnMessage", "Write", "WriteFailed"}
                   /\ log[c][i].ev = "WriteError" => log[c][i].m = NoMsg
            /\ pc[c] = "returned" => (c \notin clients /\ closed[c])

\* The worker returned after OnConnect failed; the on_connect message is still
\* in the queue, unwritten.
C28_Witness ==
    /\ pc[1] = "returned" /\ ConnectFailed(1)
    /\ sentDirect[1] = <<OnConnectMsg(1)>> /\ dq[1] = <<OnConnectMsg(1)>>
    /\ 1 \notin clients /\ closed[1]


\* Connection c has passed the factory and has no handler: the factory is nil
\* or returned nil.
HandlerLess(c) == pc[c] \notin {"absent", "registering", "accepted"} /\ ~handler[c]
\* The entries of a log that record an attempt to write a broadcast or direct
\* message.
Attempts(l) ==
    {i \in 1..Len(l) : l[i].ev \in {"Write", "WriteFailed", "WriteError"}
                       /\ l[i].m.kind \in {"bcast", "direct", "on_connect"}}

\* C29: without a handler no hook is called and nothing is filtered.  Every
\* broadcast published while the consumer was attached and every direct message
\* sent is either still queued or was dequeued and handed to Encode and Write, in
\* order; each of them was written or is being written, except the one whose
\* encoding or write failed, which ends the connection.  The connection is in the registry from
\* accept on and is removed from it by the time the worker has returned.
C29_HandlerLess ==
    \A c \in Conns :
        /\ factory = "nil" => ~handler[c]
        /\ pc[c] = "accepted" => c \in clients
        /\ HandlerLess(c) =>
               /\ \A i \in 1..Len(log[c]) :
                      log[c][i].ev \notin {"OnInitialize", "InitReturn", "OnConnect",
                                            "OnMessage", "OnCallback", "OnDisconnect"}
               /\ Ids(log[c], {"Write", "WriteFailed", "WriteError"}, BOOLEAN)
                      \o [i \in 1..Len(InHand(c, {"bcast"})) |-> hand[c].id] \o Queued(c)
                      = attachedPub[c]
               /\ TakenDirect(c) \o dq[c] = sentDirect[c]
               /\ \A i \in Attempts(log[c]) :
                      log[c][i].ev # "Write" =>
                          (~InLoop(c) /\ \A j \in Attempts(log[c]) : j <= i)
               /\ pc[c] \in {"handshake", "connecting", "loop", "writing"} => c \in clients
               /\ pc[c] = "returned" => c \notin clients

\* With a nil factory the connection wrote its on_connect message and a
\* broadcast, then ended and left the registry.
C29_Witness ==
    /\ factory = "nil"
    /\ WrittenDirect(1) = <<OnConnectMsg(1)>>
    /\ Written(1) = <<1>>
    /\ pc[1] = "returned" /\ 1 \notin clients


\* C30: no send is attempted on the closed direct queue.  The queue is closed
\* only after the closed flag is set; a DirectMessage call, by the application
\* or by the handshake, on a session whose flag is set returns the
\* session-closed error and leaves the queue alone, wherever the Close call is
\* that set the flag; a call that returns nil found the queue open and put its
\* message at the end; and no call panics.
C30_NoSendOnClosedQueue ==
    /\ [](~panicked /\ \A s \in Conns : released[s].direct > 0 => closed[s])
    /\ [][\A s \in Conns :
             /\ (nDirect' = nDirect + 1 /\ lastErr'.s = s) =>
                    IF closed[s]
                    THEN lastErr'.err = ErrClosed /\ dq'[s] = dq[s]
                    ELSE /\ released[s].direct = 0
                         /\ lastErr'.err = ErrNone =>
                                \E enc \in BOOLEAN :
                                    dq'[s] = Append(dq[s], Msg("direct", nDirect', enc))
             /\ (pc[s] = "handshake" /\ pc'[s] = "connecting") =>
                    IF closed[s]
                    THEN dq'[s] = dq[s] /\ sentDirect'[s] = sentDirect[s]
                    ELSE released[s].direct = 0]_vars

\* A DirectMessage call returned session-closed while the Close call that set
\* the flag had not yet closed the queue.
C30_Witness ==
    /\ lastErr = [s |-> 1, err |-> ErrClosed]
    /\ closed[1] /\ released[1].direct = 0
    /\ \E t \in Threads : Target(t) = 1 /\ cpos[t] \in {"done", "consumer", "direct"}

\* C31: a handler's OnCallback is never invoked once that handler's
\* OnDisconnect has started: in every connection's history no OnCallback entry
\* comes after the OnDisconnect entry.
C31_NoCallbackAfterDisconnect ==
    \A c \in Conns : \A i, j \in 1..Len(log[c]) :
        log[c][i].ev = "OnDisconnect" /\ i < j => log[c][j].ev # "OnCallback"

\* C32: OnCallback is invoked only after the handler's OnInitialize has
\* returned nil, and a callback that found a registered session and called no
\* handler found a session that has none.
C32_CallbackAfterInitialize ==
    /\ \A c \in Conns : \A j \in 1..Len(log[c]) :
           log[c][j].ev = "OnCallback" =>
               \E i \in 1..(j - 1) : log[c][i].ev = "InitReturn" /\ log[c][i].ret
    /\ \A c \in clients :
           nCb > 0 /\ looked = 0 /\ cb.err = ErrNone /\ cb.id = ClientID(c) /\ cb.to = 0
               => ~handler[c]

\* C34: on every connection that enters the multiplex loop the on_connect
\* message is queued, it is the first message the direct queue accepted, and
\* it is the first message the loop takes from the direct queue.
C34_OnConnectFirst ==
    \A c \in Conns :
        InLoop(c) =>
            /\ OnConnectQueued(c)
            /\ Head(sentDirect[c]) = OnConnectMsg(c)
            /\ TakenDirect(c) # <<>> => Head(TakenDirect(c)) = OnConnectMsg(c)

\* When the latest frame of c was written, a ping included, or when its
\* OnConnect returned if none was.
LastFrameAt(c) ==
    LET at == {log[c][i].at : i \in {k \in 1..Len(log[c]) : log[c][k].ev \in {"OnConnect", "Write"}}}
    IN CHOOSE t \in at : \A u \in at : u <= t
\* The step is an OnMessage call on c that returned false.
Suppressed(c) ==
    /\ Len(log'[c]) = Len(log[c]) + 1
    /\ log'[c][Len(log'[c])].ev = "OnMessage"
    /\ ~log'[c][Len(log'[c])].ret

\* C35: a message suppressed by OnMessage does not restart the keepalive
\* window.  The step that suppresses a message leaves the ticker's deadline and
\* its pending tick as they are, and a connection with a handler that waits in
\* the select of its loop has a tick pending or due at most 60 units after its
\* latest written frame.
C35_SuppressedKeepsWindow ==
    /\ [](\A c \in Conns :
             handler[c] /\ pc[c] = "loop" /\ ~pingReady[c]
                 => nextTick[c] <= LastFrameAt(c) + PingInterval)
    /\ [][\A c \in Conns :
             Suppressed(c) => nextTick'[c] = nextTick[c] /\ pingReady'[c] = pingReady[c]]_vars
\* A handler suppressed the only message of its connection, nothing but a ping
\* was written, and the ping came 60 units after the loop began.
C35_Witness ==
    /\ handler[1]
    /\ \A i \in 1..Len(log[1]) : ~RealWrite(log[1][i])
    /\ \E i, j \in 1..Len(log[1]) :
           /\ i < j
           /\ log[1][i].ev = "OnMessage" /\ ~log[1][i].ret
           /\ PingWrite(log[1][j]) /\ log[1][j].at = PingInterval

\* C33: when a thread other than the worker closes a session whose connection
\* is in the multiplex loop, the worker eventually returns with the registry
\* entry removed and, with a handler, OnDisconnect run exactly once.  From the
\* moment the session is closed no direct message is accepted any more, and what
\* the worker writes from the direct queue is a selection of what was accepted.
C33_ExternalCloseEndsLoop ==
    /\ \A c \in Conns :
           (InLoop(c) /\ closed[c])
               ~> (/\ pc[c] = "returned"
                   /\ c \notin clients
                   /\ handler[c] => Count(c, "OnDisconnect") = 1)
    /\ [][\A c \in Conns : closed[c] => sentDirect'[c] = sentDirect[c]]_vars
    /\ [](\A c \in Conns :
             /\ IsSubsequence(WrittenDirect(c), sentDirect[c])
             /\ Count(c, "OnDisconnect") <= 1)
\* The worker left the loop because the closing thread closed the direct queue,
\* wrote the message queued before Close and not the one refused after it, and
\* ran the whole teardown.
C33_Witness ==
    /\ Has(1, "ExitDirectClosed")
    /\ nClose > 0
    /\ lastErr = [s |-> 1, err |-> ErrClosed]
    /\ WrittenDirect(1) = <<OnConnectMsg(1)>>
    /\ pc[1] = "returned" /\ 1 \notin clients
    /\ handler[1] /\ Count(1, "OnDisconnect") = 1

\* The route registered as number n.
RouteNumber(n) == CHOOSE r \in {routes[i] : i \in 1..Len(routes)} : r.n = n
\* The routes a request may be given to: those with its method or "*".
Candidates(method) == {r \in {routes[i] : i \in 1..Len(routes)} : r.Method \in {method, "*"}}
\* The step is a ResolveRoute call: no other operation writes its result.
Resolves == resolved' # resolved
\* What the call of this step had to return.
ResolvedRight ==
    LET q == resolved'
        exact == {r \in Candidates(q.method) : r.URI = q.path}
        glob == {r \in Candidates(q.method) : r.URI \in q.globs}
    IN /\ q.found => RouteNumber(q.route) \in Candidates(q.method)
       /\ exact # {} => q.found /\ RouteNumber(q.route) \in exact
       /\ exact = {} /\ glob # {} =>
              /\ q.found /\ RouteNumber(q.route) \in glob
              /\ \A r \in glob :
                     \/ Len(r.URI) < Len(RouteNumber(q.route).URI)
                     \/ Len(r.URI) = Len(RouteNumber(q.route).URI) /\ q.route <= r.n
       /\ exact = {} /\ glob = {} => ~q.found

\* C37: after any sequence of RegisterRoute calls, ResolveRoute returns only a
\* route whose method is the request's or "*"; a route whose URI is the path is
\* returned before any pattern match; otherwise the matching pattern with the
\* longest URI, the earlier-registered one among equals; and not-found when
\* nothing matches.
C37_ResolveRoute == [][Resolves => ResolvedRight]_vars
\* A pattern registered first and longer than the path matched, and the route
\* registered later under the path itself was returned.
C37_Witness ==
    /\ Len(routes) = 2
    /\ resolved.found /\ resolved.route = 2
    /\ RouteNumber(2).URI = resolved.path
    /\ RouteNumber(1).URI \in resolved.globs
    /\ Len(RouteNumber(1).URI) > Len(RouteNumber(2).URI)
    /\ MatchMethod(RouteNumber(1), resolved.method)

\* C36: Service.Close can be called more than once: the deferred srv.Close()
\* that follows the explicit one is a no-op and does not panic, so the example
\* program never ends by a panic and ends with the service closed.
C36_CloseTwice ==
    /\ ~crashed
    /\ mainPc # "panic"
    /\ mainPc \in {"deferred", "returned"} => done

\* The body of the request supplies name k: it is a JSON object that decodes, or
\* an urlencoded form of a request whose body is read, and has the name.
BodySupplies(k) ==
    /\ k \in DOMAIN preq.body
    /\ preq.readable
    /\ preq.valid
    /\ \/ HasPrefix(preq.ct, "application/json")
       \/ HasPrefix(preq.ct, "application/x-www-form-urlencoded") /\ preq.method \in BodyMethods
\* The matched route supplies k as a named parameter.
URISupplies(k) == k \in DOMAIN preq.uri /\ preq.uri[k] # ""
QuerySupplies(k) == k \in DOMAIN preq.query

\* C38: in the unified view a name supplied by several sources has the value of
\* the decoded JSON body or form, else of the URI named parameter, else the first
\* value of the query string; so client_id in both the query string and a JSON
\* body resolves to the body's value.
C38_ParameterPrecedence ==
    params.called /\ ~params.err =>
        \A k \in Names :
            /\ BodySupplies(k) => HttpParameterT(k) = Param(preq.body[k])
            /\ ~BodySupplies(k) /\ URISupplies(k) => HttpParameterT(k) = Param(preq.uri[k])
            /\ ~BodySupplies(k) /\ ~URISupplies(k) /\ QuerySupplies(k)
                   => HttpParameterT(k) = Param(preq.query[k][1])
            /\ ~BodySupplies(k) /\ ~URISupplies(k) /\ ~QuerySupplies(k)
                   => HttpParameterT(k) = Absent
====
